---- MODULE Spec2Model ----
(***************************************************************************)
(* ATS form automator: retry engine (src/utils/retry.ts), section          *)
(* controllers and platform handlers (src/handlers/*.ts) and the           *)
(* orchestrator (src/automator.ts), as state machines.                     *)
(*                                                                         *)
(* Conventions                                                             *)
(*  - backoffMultiplier is kept in tenths (1.4 is 14), so that             *)
(*    initialDelayMs * backoffMultiplier ** i is the exact rational        *)
(*    initialDelayMs * tenths^i / 10^i and Math.round is computed on it.   *)
(*  - an error message is a sequence of strings; a template literal that   *)
(*    embeds an inner message is the concatenation of the sequences.       *)
(***************************************************************************)
EXTENDS Integers, Sequences, FiniteSets, TLC

VARIABLES
  \* ---- one run of withRetry (retry.ts) ----
  options,      \* the RetryOptions passed to withRetry
  attempt,      \* the loop variable of withRetry
  rpc,          \* position: "attempt", "sleep", "returned", "thrown"
  opCalls,      \* number of times operation() was invoked
  opErrors,     \* the errors operation() threw, in order
  predCalls,    \* number of times options.shouldRetry was invoked
  delayMs,      \* the delay computed by the catch block, waiting to be slept
  sleeps,       \* the delays slept so far (setTimeout completed), in order
  retryEvents,  \* the logStep calls issued by withRetry, in order
  outcome,      \* the value returned or the Error thrown by withRetry
  \* ---- main (automator.ts) ----
  targets,        \* the targets array of main
  targetIndex,    \* index of the target the for-loop of main is at
  summaryItems,   \* main.summaryItems
  printed,        \* what printRunSummary printed: targets, successes, failures
  \* ---- applyToJob (automator.ts), one run per target ----
  pc,             \* position in main / applyToJob
  profile,        \* the UserProfile handed to applyToJob
  runtimeOptions, \* the ATSRuntimeOptions of the handler context
  handler,        \* platform of the handler detectHandler returned, or "none"
  page,           \* applyToJob.page: "null" until newPage() returned
  phase,          \* handler method being run: "fillForm" or "submit"
  program,        \* the awaited steps of that method, in program order
  runError,       \* message of the error caught by applyToJob, <<>> if none
  result,         \* the ApplicationResult applyToJob returns
  exception,      \* message of an error thrown out of applyToJob, <<>> if none
  \* ---- position inside the handler method ----
  ip,             \* index in program of the awaited step
  bip,            \* index in the body of a retried operation, 0 outside one
  attemptOuter,   \* withRetry.attempt of the retried operation
  attemptWait,    \* withRetry.attempt of waitVisibleWithRetry
  mode,           \* "run", or the sleep withRetry is in: "sleepWait", "sleepBlock"
  seen,           \* what the last class read found (className.includes("open"))
  \* ---- the page (external collaborator) ----
  vis,            \* the markers that are visible now
  pend,           \* the markers the page is about to show
  \* ---- what the handler did in this run ----
  ensured,        \* sections whose ensureActive returned
  failedEnsure,   \* the section whose ensureActive threw, or "none"
  touched,        \* <<section, target, value>> of the page elements acted on
  callClicks,     \* clicks issued by the awaited step so far
  prevCallClicks, \* clicks issued by the awaited step before it
  timeouts,       \* marker waits of the awaited step that timed out
  confirmation,   \* the token read from the page by submit
  observed,       \* the markers a wait of this run found visible
  logged,         \* the messages context.logStep was called with
  selectedGlobexSkills,  \* the counter of the Globex skill loop
  \* ---- one call of a function of mappings/registry.ts or globex.ts ----
  called,         \* the function called, "none" before any call
  given,          \* its arguments
  returned,       \* what it returned
  \* ---- two runs of a pacing engine (utils/human-like.ts) ----
  humanSeed,      \* the seed both engines are created from, Absent if none
  loneSurrogates, \* what the browser makes of a lone surrogate sent to it
  calls,          \* the calls both runs are driven by, in order
  engineRun,      \* the run in progress: 1 or 2, 0 when no engine is run
  engine,         \* the random source of the engine and its state
  callIndex,      \* index in calls of the call in progress
  stepIndex,      \* index of the awaited step of that call
  events,         \* per run: what the engine did to the page and its timers
  fields,         \* per run: the value of the field typeText types into
  ends,           \* per run: "idle", "running", "returned" or "threw"
  \* ---- the Globex school lookup ----
  chosen          \* the results the last lookup found, the index it clicked

retryVars == <<options, attempt, rpc, opCalls, opErrors, predCalls, delayMs,
               sleeps, retryEvents, outcome>>

mainVars == <<targets, targetIndex, summaryItems, printed>>

jobVars == <<pc, profile, runtimeOptions, handler, page, phase, program,
             runError, result, exception>>

ctlVars == <<ip, bip, attemptOuter, attemptWait, mode, seen>>

pageVars == <<vis, pend>>

histVars == <<ensured, failedEnsure, touched, callClicks, prevCallClicks,
              timeouts, confirmation, observed, logged,
              selectedGlobexSkills>>

engineVars == <<humanSeed, loneSurrogates, calls, engineRun, engine,
                callIndex, stepIndex, events, fields, ends>>

callVars == <<called, given, returned, engineVars, chosen>>

runVars == <<mainVars, jobVars, ctlVars, pageVars, histVars, callVars>>

vars == <<retryVars, runVars>>

-----------------------------------------------------------------------------
(* Bounds of the model *)

\* largest attempts value of the generic policies drawn by InitRetry
MaxAttempts == 4

-----------------------------------------------------------------------------
(* Arithmetic helpers *)

Max(a, b) == IF a >= b THEN a ELSE b

Min(a, b) == IF a <= b THEN a ELSE b

RECURSIVE Pow(_, _)
Pow(b, n) == IF n <= 0 THEN 1 ELSE b * Pow(b, n - 1)

\* Math.round of the rational num/den (den > 0): floor(num/den + 1/2)
MathRound(num, den) == (2 * num + den) \div (2 * den)

-----------------------------------------------------------------------------
(* utils/retry-profiles.ts : backoffMultiplier in tenths *)

ACME_STEP_TRANSITION_RETRY_PROFILE ==
  [attempts |-> 2, initialDelayMs |-> 120, backoffMultiplier |-> 14]

SINGLE_ATTEMPT_RETRY_PROFILE ==
  [attempts |-> 1, initialDelayMs |-> 0, backoffMultiplier |-> 10]

ACME_TYPEAHEAD_RETRY_PROFILE ==
  [attempts |-> 3, initialDelayMs |-> 150, backoffMultiplier |-> 15]

ACME_SUBMIT_RETRY_PROFILE ==
  [attempts |-> 2, initialDelayMs |-> 180, backoffMultiplier |-> 16]

GLOBEX_TYPEAHEAD_RETRY_PROFILE ==
  [attempts |-> 3, initialDelayMs |-> 180, backoffMultiplier |-> 16]

GLOBEX_SECTION_OPEN_RETRY_PROFILE ==
  [attempts |-> 2, initialDelayMs |-> 100, backoffMultiplier |-> 13]

GLOBEX_SUBMIT_RETRY_PROFILE ==
  [attempts |-> 2, initialDelayMs |-> 180, backoffMultiplier |-> 16]

RetryProfiles ==
  { ACME_STEP_TRANSITION_RETRY_PROFILE, SINGLE_ATTEMPT_RETRY_PROFILE,
    ACME_TYPEAHEAD_RETRY_PROFILE, ACME_SUBMIT_RETRY_PROFILE,
    GLOBEX_TYPEAHEAD_RETRY_PROFILE, GLOBEX_SECTION_OPEN_RETRY_PROFILE,
    GLOBEX_SUBMIT_RETRY_PROFILE }

-----------------------------------------------------------------------------
(* utils/retry.ts *)

\* What operation() may throw: Error objects and one non-Error value.
OpErrorValues ==
  { [isError |-> TRUE,  message |-> <<"not yet visible">>],
    [isError |-> TRUE,  message |-> <<"element absent">>],
    [isError |-> FALSE, message |-> <<"thrown string">>] }

\* What operation() may return.
OpValues == {"value-a", "value-b"}

NoError == [isError |-> FALSE, message |-> <<>>]

NoOutcome == [kind |-> "none", value |-> "", message |-> <<>>]

\* getErrorMessage: error.message for an Error, String(error) otherwise
getErrorMessage(error) == error.message

computeBackoffDelay_offByOne(initialDelayMs, backoffMultiplier, attemptIndex) ==
  LET safeInitialDelay == Max(0, initialDelayMs)
      safeBackoff == IF backoffMultiplier > 0 THEN backoffMultiplier ELSE 10
  IN  MathRound(safeInitialDelay * Pow(safeBackoff, attemptIndex + 1),
                Pow(10, attemptIndex + 1))

computeBackoffDelay(initialDelayMs, backoffMultiplier, attemptIndex) ==
  LET safeInitialDelay == Max(0, initialDelayMs)
      safeBackoff == IF backoffMultiplier > 0 THEN backoffMultiplier ELSE 10
  IN  MathRound(safeInitialDelay * Pow(safeBackoff, attemptIndex),
                Pow(10, attemptIndex))

maxAttemptsOf_unclamped(opts) == opts.attempts

\* const maxAttempts = Math.max(1, options.attempts)
maxAttemptsOf(opts) == Max(1, opts.attempts)

canRetryByCount_inclusive(att, opts) == att <= Max(1, opts.attempts)

\* const canRetryByCount = attempt < maxAttempts
canRetryByCount(att, opts) == att < maxAttemptsOf(opts)

canRetryByPredicate_ignored(opts, error) == TRUE

\* options.shouldRetry ? options.shouldRetry(error) : true
canRetryByPredicate(opts, error) ==
  IF opts.hasShouldRetry THEN opts.shouldRetry[error] ELSE TRUE

\* whether the catch block invokes options.shouldRetry (it does so before
\* shouldRetry = canRetryByCount && canRetryByPredicate is formed)
predicateInvoked_onlyWithBudget(att, opts) ==
  opts.hasShouldRetry /\ canRetryByCount(att, opts)

predicateInvoked(att, opts) == opts.hasShouldRetry

\* `[${scope}] Step "${step}" failed after ${attempt}/${maxAttempts} attempts: ${errorMessage}`
RetryFailure(opts, att, errorMessage) ==
  <<opts.scope, opts.step, ToString(att), ToString(maxAttemptsOf(opts))>>
    \o errorMessage

\* `[${scope}] Step "${step}" failed without a successful attempt.`
RetryFailureNoAttempt(opts) ==
  <<opts.scope, opts.step, "failed without a successful attempt">>

RetryEvent_staleDelay(opts, att, errorMessage, delay) ==
  [scope |-> opts.scope, step |-> opts.step, attempt |-> att,
   maxAttempts |-> Max(1, opts.attempts), errorMessage |-> errorMessage,
   delayMs |-> Max(0, opts.initialDelayMs)]

\* the logStep call of the catch block
RetryEvent(opts, att, errorMessage, delay) ==
  [scope |-> opts.scope, step |-> opts.step, attempt |-> att,
   maxAttempts |-> maxAttemptsOf(opts), errorMessage |-> errorMessage,
   delayMs |-> delay]

\* the message of the error the catch block throws for the failed attempt
thrownMessage_firstError(opts, att, errors) ==
  RetryFailure(opts, att, getErrorMessage(errors[1]))

thrownMessage(opts, att, errors) ==
  RetryFailure(opts, att, getErrorMessage(errors[Len(errors)]))

\* the attemptIndex handed to computeBackoffDelay
backoffIndex(att) == att - 1

-----------------------------------------------------------------------------
(* The policies and predicates withRetry is run with *)

Scopes == { <<"Acme", "wait for step 2">>, <<"Globex", "open contact section">> }

Predicates ==
  { [e \in OpErrorValues |-> TRUE],
    [e \in OpErrorValues |-> FALSE],
    [e \in OpErrorValues |-> e.message # <<"element absent">>] }

AlwaysRetry == [e \in OpErrorValues |-> TRUE]

\* generic policies: attempts 0..MaxAttempts (0 is clamped to 1 by withRetry),
\* a delay whose products hit .5, a negative delay and a zero multiplier
GenericProfiles ==
  { [attempts |-> n, initialDelayMs |-> 25, backoffMultiplier |-> 15]
      : n \in 0..MaxAttempts }
  \cup { [attempts |-> 3, initialDelayMs |-> -40, backoffMultiplier |-> 0] }

RetryOptionsSet ==
  { [attempts |-> p.attempts, initialDelayMs |-> p.initialDelayMs,
     backoffMultiplier |-> p.backoffMultiplier,
     scope |-> s[1], step |-> s[2],
     hasShouldRetry |-> h[1], shouldRetry |-> h[2]]
      : p \in RetryProfiles \cup GenericProfiles,
        s \in Scopes,
        h \in {<<FALSE, AlwaysRetry>>} \cup ({TRUE} \X Predicates) }

NoResult == [success |-> FALSE, confirmationId |-> <<>>, error |-> <<>>,
             screenshot |-> FALSE]

\* the state of main before it has started a target
InitIdle ==
  /\ targets = <<>>
  /\ targetIndex = 1
  /\ summaryItems = <<>>
  /\ printed = [total |-> 0, succeeded |-> 0, failed |-> 0]
  /\ pc = "idle"
  /\ profile = [firstName |-> "Jane"]
  /\ runtimeOptions = [enableRetries |-> TRUE]

\* the locals of applyToJob and of the handler when applyToJob is entered
FreshRun ==
  /\ handler = "none"
  /\ page = "null"
  /\ phase = "fillForm"
  /\ program = <<>>
  /\ runError = <<>>
  /\ result = NoResult
  /\ exception = <<>>
  /\ ip = 1
  /\ bip = 0
  /\ attemptOuter = 1
  /\ attemptWait = 1
  /\ mode = "run"
  /\ seen = "none"
  /\ vis = {}
  /\ pend = {}
  /\ ensured = {}
  /\ failedEnsure = "none"
  /\ touched = {}
  /\ callClicks = 0
  /\ prevCallClicks = 0
  /\ timeouts = 0
  /\ confirmation = <<>>
  /\ observed = {}
  /\ logged = {}
  /\ selectedGlobexSkills = 0

\* no function of the mappings has been called
NoCall ==
  /\ called = "none"
  /\ given = <<>>
  /\ returned = <<>>
  /\ humanSeed = <<>>
  /\ loneSurrogates = "kept"
  /\ calls = <<>>
  /\ engineRun = 0
  /\ engine = [random |-> "none", state |-> [hi |-> 0, lo |-> 0]]
  /\ callIndex = 1
  /\ stepIndex = 1
  /\ events = << <<>>, <<>> >>
  /\ fields = << <<>>, <<>> >>
  /\ ends = <<"idle", "idle">>
  /\ chosen = [results |-> <<>>, clicked |-> 0]

\* the retry engine before its first attempt
RetryIdle ==
  /\ options = [attempts |-> 1, initialDelayMs |-> 0, backoffMultiplier |-> 10,
                scope |-> "", step |-> "", hasShouldRetry |-> FALSE,
                shouldRetry |-> AlwaysRetry]
  /\ attempt = 1
  /\ rpc = "idle"
  /\ opCalls = 0
  /\ opErrors = <<>>
  /\ predCalls = 0
  /\ delayMs = 0
  /\ sleeps = <<>>
  /\ retryEvents = <<>>
  /\ outcome = NoOutcome

InitRetry ==
  /\ InitIdle
  /\ FreshRun
  /\ NoCall
  /\ options \in RetryOptionsSet
  /\ attempt = 1
  /\ rpc = "attempt"
  /\ opCalls = 0
  /\ opErrors = <<>>
  /\ predCalls = 0
  /\ delayMs = 0
  /\ sleeps = <<>>
  /\ retryEvents = <<>>
  /\ outcome = NoOutcome

\* try { return await operation(); } with operation() resolving
OperationReturns ==
  /\ rpc = "attempt"
  /\ \E v \in OpValues :
       /\ outcome' = [kind |-> "returned", value |-> v, message |-> <<>>]
  /\ opCalls' = opCalls + 1
  /\ rpc' = "returned"
  /\ UNCHANGED <<options, attempt, opErrors, predCalls, delayMs, sleeps,
                 retryEvents, runVars>>

\* operation() rejects: the catch block up to the throw or to the sleep
OperationThrows ==
  /\ rpc = "attempt"
  /\ \E error \in OpErrorValues :
       LET errors == Append(opErrors, error)
           shouldRetry == canRetryByCount(attempt, options)
                            /\ canRetryByPredicate(options, error)
           delay == computeBackoffDelay(options.initialDelayMs,
                                        options.backoffMultiplier,
                                        backoffIndex(attempt))
       IN  /\ opErrors' = errors
           /\ predCalls' = IF predicateInvoked(attempt, options)
                             THEN predCalls + 1 ELSE predCalls
           /\ IF ~shouldRetry
                THEN /\ outcome' = [kind |-> "thrown", value |-> "",
                                    message |-> thrownMessage(options, attempt, errors)]
                     /\ rpc' = "thrown"
                     /\ UNCHANGED <<delayMs, retryEvents>>
                ELSE /\ delayMs' = delay
                     /\ retryEvents' = Append(retryEvents,
                          RetryEvent(options, attempt, getErrorMessage(error), delay))
                     /\ rpc' = "sleep"
                     /\ UNCHANGED outcome
  /\ opCalls' = opCalls + 1
  /\ UNCHANGED <<options, attempt, sleeps, runVars>>

\* await new Promise(resolve => setTimeout(resolve, delayMs)); attempt += 1
SleepElapses ==
  /\ rpc = "sleep"
  /\ sleeps' = Append(sleeps, delayMs)
  /\ attempt' = attempt + 1
  /\ IF attempt + 1 <= maxAttemptsOf(options)
       THEN /\ rpc' = "attempt"
            /\ UNCHANGED outcome
       ELSE /\ rpc' = "thrown"
            /\ outcome' = [kind |-> "thrown", value |-> "",
                           message |-> RetryFailureNoAttempt(options)]
  /\ UNCHANGED <<options, opCalls, opErrors, predCalls, delayMs, retryEvents,
                 runVars>>

NextRetry == OperationReturns \/ OperationThrows \/ SleepElapses

SpecRetry == InitRetry /\ [][NextRetry]_vars

\* withRetry with every operation() call settling and every timer firing
SpecRetryLive == InitRetry /\ [][NextRetry]_vars /\ WF_vars(NextRetry)

-----------------------------------------------------------------------------
(* Strings.  A string the code inspects or converts is a sequence of
   one-character strings; Join gives the string a table is keyed by. *)

UpperCase == <<"A", "B", "C", "D", "E", "F", "G", "H", "I", "J", "K", "L", "M",
               "N", "O", "P", "Q", "R", "S", "T", "U", "V", "W", "X", "Y", "Z">>

LowerCase == <<"a", "b", "c", "d", "e", "f", "g", "h", "i", "j", "k", "l", "m",
               "n", "o", "p", "q", "r", "s", "t", "u", "v", "w", "x", "y", "z">>

DecimalDigits == <<"0", "1", "2", "3", "4", "5", "6", "7", "8", "9">>

WhiteSpace == {" ", "\t", "\n"}

Range(seq) == {seq[i] : i \in DOMAIN seq}

RECURSIVE Join(_)
Join(str) == IF str = <<>> THEN "" ELSE Head(str) \o Join(Tail(str))

\* String.prototype.toLowerCase, one character
toLowerCaseChar(c) ==
  IF c \in Range(UpperCase)
    THEN LowerCase[CHOOSE i \in DOMAIN UpperCase : UpperCase[i] = c]
    ELSE c

toLowerCase(str) == [i \in DOMAIN str |-> toLowerCaseChar(str[i])]

RECURSIVE trimStart(_)
trimStart(str) ==
  IF str # <<>> /\ Head(str) \in WhiteSpace THEN trimStart(Tail(str)) ELSE str

RECURSIVE trimEnd(_)
trimEnd(str) ==
  IF str # <<>> /\ str[Len(str)] \in WhiteSpace
    THEN trimEnd(SubSeq(str, 1, Len(str) - 1))
    ELSE str

\* String.prototype.trim
trim(str) == trimEnd(trimStart(str))

\* String.prototype.slice(0, n)
slice(str, n) == SubSeq(str, 1, Min(n, Len(str)))

\* String.prototype.includes
includes(str, sub) ==
  \E i \in 0..(Len(str) - Len(sub)) : SubSeq(str, i + 1, i + Len(sub)) = sub

\* str.split(",")[0]
splitFirst(str, sep) ==
  IF sep \in Range(str)
    THEN SubSeq(str, 1, (CHOOSE i \in DOMAIN str :
                           /\ str[i] = sep
                           /\ \A j \in 1..(i - 1) : str[j] # sep) - 1)
    ELSE str

\* Number.parseInt(str, 10): -1 stands for NaN where the digits are missing;
\* a leading sign is kept in parseIntSign
DigitValue(c) == (CHOOSE i \in DOMAIN DecimalDigits : DecimalDigits[i] = c) - 1

RECURSIVE DigitPrefix(_)
DigitPrefix(str) ==
  IF str # <<>> /\ Head(str) \in Range(DecimalDigits)
    THEN <<Head(str)>> \o DigitPrefix(Tail(str))
    ELSE <<>>

RECURSIVE DigitsValue(_)
DigitsValue(ds) ==
  IF ds = <<>> THEN 0
  ELSE 10 * DigitsValue(SubSeq(ds, 1, Len(ds) - 1)) + DigitValue(ds[Len(ds)])

NaN == [nan |-> TRUE, value |-> 0]

parseInt(str) ==
  LET s == trimStart(str)
      signed == s # <<>> /\ Head(s) \in {"-", "+"}
      body == IF signed THEN Tail(s) ELSE s
      ds == DigitPrefix(body)
  IN  IF ds = <<>> THEN NaN
      ELSE [nan |-> FALSE,
            value |-> IF signed /\ Head(s) = "-"
                        THEN 0 - DigitsValue(ds) ELSE DigitsValue(ds)]

\* String(n) for an integer n >= 0
RECURSIVE String(_)
String(n) ==
  IF n < 10 THEN <<DecimalDigits[n + 1]>>
  ELSE String(n \div 10) \o <<DecimalDigits[(n % 10) + 1]>>

-----------------------------------------------------------------------------
(* mappings/registry.ts *)

Undefined == "<undefined>"

Null == "<null>"

\* names every object literal inherits from Object.prototype
ObjectPrototypeKeys ==
  { "constructor", "toString", "valueOf", "hasOwnProperty", "isPrototypeOf",
    "propertyIsEnumerable", "toLocaleString", "__proto__" }

\* table[key] of a Record<string, string> object literal
Lookup(table, key) ==
  IF key \in DOMAIN table THEN table[key]
  ELSE IF key \in ObjectPrototypeKeys THEN "<inherited " \o key \o ">"
  ELSE Undefined

\* Object.values(table)
TableValues(table) == {table[k] : k \in DOMAIN table}

acmeReferralSourceMap ==
  ( "linkedin" :> "linkedin" @@ "company-website" :> "company-website" @@
    "job-board" :> "job-board" @@ "referral" :> "referral" @@
    "university" :> "university" @@ "other" :> "other" )

acmeSkillAliases ==
  ( "javascript" :> "javascript" @@ "js" :> "javascript" @@
    "typescript" :> "typescript" @@ "ts" :> "typescript" @@
    "python" :> "python" @@ "py" :> "python" @@
    "react" :> "react" @@ "reactjs" :> "react" @@
    "node" :> "nodejs" @@ "nodejs" :> "nodejs" @@
    "sql" :> "sql" @@ "git" :> "git" @@ "docker" :> "docker" )

mappingRegistry ==
  [ acme |->
      [ experienceLevel |->
          ( "0-1" :> "0-1" @@ "1-3" :> "1-3" @@ "3-5" :> "3-5" @@
            "5-10" :> "5-10" @@ "10+" :> "10+" ),
        education |->
          ( "high-school" :> "high-school" @@ "associates" :> "associates" @@
            "bachelors" :> "bachelors" @@ "masters" :> "masters" @@
            "phd" :> "phd" ),
        referralSource |-> acmeReferralSourceMap,
        skill |-> acmeSkillAliases ],
    globex |->
      [ experienceLevel |->
          ( "0-1" :> "intern" @@ "1-3" :> "junior" @@ "3-5" :> "mid" @@
            "5-10" :> "senior" @@ "10+" :> "staff" ),
        education |->
          ( "high-school" :> "hs" @@ "associates" :> "assoc" @@
            "bachelors" :> "bs" @@ "masters" :> "ms" @@ "phd" :> "phd" ),
        referralSource |->
          ( "linkedin" :> "linkedin" @@ "company-website" :> "website" @@
            "job-board" :> "board" @@ "referral" :> "referral" @@
            "university" :> "university" @@ "other" :> "other" ),
        skill |->
          ( "javascript" :> "js" @@ "typescript" :> "ts" @@ "python" :> "py" @@
            "react" :> "react" @@ "nodejs" :> "node" @@ "node" :> "node" @@
            "sql" :> "sql" @@ "git" :> "git" @@ "docker" :> "docker" @@
            "aws" :> "aws" @@ "graphql" :> "graphql" ) ] ]

\* the lookup goes to the wrong family of the platform's registry
mapExperienceLevel_educationTable(platform, value) ==
  Lookup(mappingRegistry[platform].education, value)

mapExperienceLevel(platform, value) ==
  Lookup(mappingRegistry[platform].experienceLevel, value)

mapEducation(platform, value) ==
  Lookup(mappingRegistry[platform].education, value)

mapReferralSource(platform, value) ==
  LET normalizedValue == Join(toLowerCase(trim(value)))
      mapped == Lookup(mappingRegistry[platform].referralSource, normalizedValue)
  IN  IF mapped # Undefined /\ mapped # "" THEN mapped ELSE "other"

normalizeSkillLowercase(rawSkill) == toLowerCase(trim(rawSkill))

normalizeSkillAliasKey(rawSkill) ==
  SelectSeq(normalizeSkillLowercase(rawSkill),
            LAMBDA c : c \in Range(LowerCase) \cup Range(DecimalDigits))

mapSkill(platform, rawSkill) ==
  LET normalizedSkill == Join(normalizeSkillLowercase(rawSkill))
      aliasKey == Join(normalizeSkillAliasKey(rawSkill))
  IN  IF platform = "acme"
        THEN IF Lookup(acmeSkillAliases, aliasKey) # Undefined
               THEN Lookup(acmeSkillAliases, aliasKey)
               ELSE normalizedSkill
        ELSE IF Lookup(mappingRegistry.globex.skill, normalizedSkill) # Undefined
               THEN Lookup(mappingRegistry.globex.skill, normalizedSkill)
               ELSE Null

\* globex handler: normalizeCity, normalizeSalary
normalizeCity(location) ==
  IF trim(splitFirst(location, ",")) # <<>>
    THEN trim(splitFirst(location, ","))
    ELSE trim(location)

\* a property the profile does not have (rawSalary?: string is undefined)
Absent == <<Undefined>>

\* the salary is stepped but not clamped to the slider's range
normalizeSalary_unclamped(rawSalary) ==
  LET parsedSalary == parseInt(IF rawSalary = Absent THEN <<>> ELSE rawSalary)
      baseSalary == IF parsedSalary.nan THEN 80000 ELSE parsedSalary.value
  IN  String(MathRound(Max(0, baseSalary), 5000) * 5000)

normalizeSalary(rawSalary) ==
  LET defaultSalary == 80000
      parsedSalary == parseInt(IF rawSalary = Absent THEN <<>> ELSE rawSalary)
      baseSalary == IF parsedSalary.nan THEN defaultSalary ELSE parsedSalary.value
      boundedSalary == Max(30000, Min(200000, baseSalary))
      steppedSalary == MathRound(boundedSalary, 5000) * 5000
  IN  String(steppedSalary)

-----------------------------------------------------------------------------
(* automator.ts, profile.ts : the inputs of a run *)

BASE_URL == <<"h", "t", "t", "p", ":", "/", "/", "l", "o", "c", "a", "l", "h", "o", "s", "t", ":", "3", "9", "3", "9">>

\* main.targets; form names the form the server has at the url
mainTargets ==
  << [name |-> "Acme Corp", url |-> BASE_URL \o <<"/", "a", "c", "m", "e", ".", "h", "t", "m", "l">>,
      form |-> "standard"],
     [name |-> "Globex Corporation", url |-> BASE_URL \o <<"/", "g", "l", "o", "b", "e", "x", ".", "h", "t", "m", "l">>,
      form |-> "standard"] >>

defaultRuntimeOptions ==
  [ enableRetries |-> TRUE,
    captureFailureScreenshots |-> TRUE,
    stepTransitionMs |-> 3000,
    sectionOpenMs |-> 2000,
    typeaheadMs |-> 3000,
    conditionalRevealMs |-> 2000,
    confirmationMs |-> 6000 ]

\* profile.ts (the cover letter is cut after its first sentence)
sampleProfile ==
  [ firstName |-> <<"J", "a", "n", "e">>,
    lastName |-> <<"D", "o", "e">>,
    email |-> <<"j", "a", "n", "e", ".", "d", "o", "e", "@", "e", "m", "a", "i", "l", ".", "c", "o", "m">>,
    phone |-> <<"+", "1", " ", "(", "5", "5", "5", ")", " ", "1", "2", "3", "-", "4", "5", "6", "7">>,
    location |-> <<"S", "a", "n", " ", "F", "r", "a", "n", "c", "i", "s", "c", "o", ",", " ", "C", "A">>,
    linkedIn |-> <<"h", "t", "t", "p", "s", ":", "/", "/", "l", "i", "n", "k", "e", "d", "i", "n", ".", "c", "o", "m", "/", "i", "n", "/", "j", "a", "n", "e", "d", "o", "e">>,
    portfolio |-> <<"h", "t", "t", "p", "s", ":", "/", "/", "g", "i", "t", "h", "u", "b", ".", "c", "o", "m", "/", "j", "a", "n", "e", "d", "o", "e">>,
    school |-> <<"S", "t", "a", "n", "f", "o", "r", "d", " ", "U", "n", "i", "v", "e", "r", "s", "i", "t", "y">>,
    education |-> "bachelors",
    experienceLevel |-> "0-1",
    skills |-> << <<"j", "a", "v", "a", "s", "c", "r", "i", "p", "t">>, <<"t", "y", "p", "e", "s", "c", "r", "i", "p", "t">>, <<"r", "e", "a", "c", "t">>, <<"g", "i", "t">> >>,
    workAuthorized |-> TRUE,
    requiresVisa |-> FALSE,
    earliestStartDate |-> <<"2", "0", "2", "6", "-", "0", "6", "-", "0", "1">>,
    salaryExpectation |-> <<"8", "5", "0", "0", "0">>,
    referralSource |-> <<"l", "i", "n", "k", "e", "d", "i", "n">>,
    coverLetter |-> <<"I", "'", "m", " ", "e", "x", "c", "i", "t", "e", "d", " ", "t", "o", " ", "a", "p", "p", "l", "y", " ", "f", "o", "r", " ", "t", "h", "e", " ", "S", "o", "f", "t", "w", "a", "r", "e", " ", "E", "n", "g", "i", "n", "e", "e", "r", " ", "r", "o", "l", "e", ".">> ]

\* a second profile: optional fields absent, no work authorization, a skill
\* alias, and the unmapped skill and referral source of the e2e tests
variantProfile ==
  [ sampleProfile EXCEPT
      !.linkedIn = <<>>,
      !.portfolio = <<>>,
      !.skills = << <<" ", "J", "S", " ">>, <<"f", "o", "r", "t", "r", "a", "n">>, <<"g", "i", "t">> >>,
      !.workAuthorized = FALSE,
      !.salaryExpectation = <<>>,
      !.referralSource = <<"f", "r", "i", "e", "n", "d", "-", "f", "r", "o", "m", "-", "m", "e", "e", "t", "u", "p">> ]

\* a third profile: the referral source is the canonical value itself
otherProfile ==
  [ sampleProfile EXCEPT !.referralSource = <<" ", "O", "t", "h", "e", "r", " ">> ]

Profiles == {sampleProfile, variantProfile, otherProfile}

-----------------------------------------------------------------------------
(* The awaited steps of a handler method.  A method is the sequence of the
   steps it awaits, in program order, for one profile and one set of runtime
   options; a retried operation carries the steps of its callback in body. *)

Step ==
  [ k            |-> "pause",
    section      |-> "none",   \* the runSection whose fill callback has it
    method       |-> "",
    target       |-> "",
    value        |-> <<>>,
    marker       |-> "none",   \* what a wait waits for, what a read reads
    reveals      |-> "none",   \* the marker the page shows in response
    toggle       |-> FALSE,    \* TRUE: a click on the shown marker hides it
    immediate    |-> FALSE,    \* TRUE: the page answers within the click
    observes     |-> {},       \* what a read of the page can find
    reads        |-> <<"open", "closed">>,  \* a read with, without the marker
    skipWhen     |-> {},       \* the observations under which it is skipped
    retryProfile |-> SINGLE_ATTEMPT_RETRY_PROFILE,
    scope        |-> "",
    step         |-> "",
    errorMessage |-> "",
    timeoutMs    |-> 0,
    ensures      |-> "none",   \* ensureActive(ensures) is this step
    counted      |-> FALSE,    \* TRUE: selectedGlobexSkills += 1 follows it,
                               \* or, of a log, the message ends in the count
    body         |-> <<>> ]

\* context.human.pause
pause == Step

\* a Playwright call on one element
Act(section, method, target, value, reveals) ==
  [ Step EXCEPT !.k = "act", !.section = section, !.method = method,
                !.target = target, !.value = value, !.reveals = reveals ]

typeText(section, selector, value) ==
  Act(section, "typeText", selector, value, "none")

fillText(section, selector, value) ==
  Act(section, "fill", selector, value, "none")

selectValue(section, selector, value) ==
  Act(section, "selectOption", selector, value, "none")

setFile(section, selector) ==
  Act(section, "setInputFiles", selector, <<>>, "none")

scrollIntoView(section, selector) ==
  Act(section, "scrollIntoView", selector, <<>>, "none")

Reveals(instr, marker) == [instr EXCEPT !.reveals = marker]

SkipWhen(instr, observations) == [instr EXCEPT !.skipWhen = observations]

\* locator.count() / locator.getAttribute(): an observation of the page
Read(section, method, target, marker, observes) ==
  [ Step EXCEPT !.k = "read", !.section = section, !.method = method,
                !.target = target, !.marker = marker, !.observes = observes ]

\* (await locator.count()) > 0: whether the page has the element
Count(section, selector) ==
  [ Read(section, "count", selector, selector, {})
      EXCEPT !.reads = <<"present", "absent">> ]

\* ((await locator.getAttribute("class")) ?? "").includes(className)
ClassIncludes(section, selector, className) ==
  [ Read(section, "getAttribute", selector, selector \o "." \o className, {})
      EXCEPT !.reads = <<className, "un" \o className>> ]

\* context.logStep(scope, message), called before the next awaited step
logStep(section, message) ==
  [ Step EXCEPT !.k = "log", !.section = section, !.method = "logStep",
                !.value = message ]

\* shared.ts humanClickWithOptionalPause
humanClickWithOptionalPause(section, selector, reveals, toggle, pauseRange) ==
  << [ Step EXCEPT !.k = "click", !.section = section,
                   !.method = "hoverAndClick", !.target = selector,
                   !.reveals = reveals, !.toggle = toggle ] >>
  \o (IF pauseRange THEN <<pause>> ELSE <<>>)

\* shared.ts fillOptionalFieldWithLogs
fillOptionalFieldWithLogs(section, selector, value) ==
  IF value # <<>> THEN <<typeText(section, selector, value)>> ELSE <<>>

\* shared.ts waitVisibleWithRetry
waitVisibleWithRetry(section, selector, timeoutMs, errorMessage, retryProfile, scope, step) ==
  [ Step EXCEPT !.k = "wait", !.section = section, !.marker = selector,
                !.timeoutMs = timeoutMs, !.errorMessage = errorMessage,
                !.retryProfile = retryProfile, !.scope = scope, !.step = step ]

\* shared.ts withOptionalRetry, globex withOptionalGlobexRetry
withOptionalRetry(section, operation, retryProfile, scope, step) ==
  [ Step EXCEPT !.k = "retry", !.section = section, !.body = operation,
                !.retryProfile = retryProfile, !.scope = scope, !.step = step ]

setToggleState_alwaysClicks(section, selector, shouldBeActive, reveals) ==
  << Read(section, "getAttribute", selector, "none", {"active", "inactive"}),
     [ Step EXCEPT !.k = "click", !.section = section, !.method = "click",
                   !.target = selector, !.reveals = reveals ] >>

\* field-filler.ts setToggleState
setToggleState(section, selector, shouldBeActive, reveals) ==
  << Read(section, "getAttribute", selector, "none", {"active", "inactive"}),
     [ Step EXCEPT !.k = "click", !.section = section, !.method = "click",
                   !.target = selector, !.reveals = reveals,
                   !.skipWhen = {IF shouldBeActive THEN "active"
                                                   ELSE "inactive"} ] >>

\* shared.ts humanToggleState: the same read and test, the click made by
\* humanClickWithOptionalPause
humanToggleState(section, selector, shouldBeActive, reveals, pauseRange) ==
  LET click == humanClickWithOptionalPause(section, selector, reveals, FALSE,
                                           pauseRange)
  IN  << Read(section, "getAttribute", selector, "none", {"active", "inactive"}) >>
      \o [i \in 1..Len(click) |->
            SkipWhen(click[i], {IF shouldBeActive THEN "active"
                                                  ELSE "inactive"})]

\* locator.innerText() of the confirmation token
innerText(selector) ==
  [ Step EXCEPT !.k = "token", !.method = "innerText", !.target = selector ]

Ensures(instr, sectionId) == [instr EXCEPT !.ensures = sectionId]

\* sections.ts runSection
runSection_withoutEnsure(ensureActive, fill) == fill

runSection(ensureActive, fill) == <<ensureActive>> \o fill

-----------------------------------------------------------------------------
(* handlers/acme.ts *)

AcmeSectionIds == <<"1", "2", "3", "4">>

acmeStepActive(sectionId) == ".form-step[data-step='" \o sectionId \o "'].active"

acmeDidNotActivate(sectionId) ==
  "Acme step " \o sectionId \o " did not become active"

\* acmeSectionController.ensureActive
acmeEnsureActive(sectionId, o) ==
  Ensures(waitVisibleWithRetry("none", acmeStepActive(sectionId),
                               o.stepTransitionMs,
                               acmeDidNotActivate(sectionId),
                               ACME_STEP_TRANSITION_RETRY_PROFILE,
                               "Acme", "wait for step " \o sectionId),
          sectionId)

\* clickStepContinue: the page answers by activating the next step
clickStepContinue(step, next) ==
  humanClickWithOptionalPause("none",
    ".form-step[data-step='" \o step \o "'] .btn-primary",
    acmeStepActive(next), FALSE, FALSE)

waitForActiveStep(step, o) == acmeEnsureActive(step, o)

acmeSkillCheckbox(mappedSkill) ==
  "input[name='skills'][value='" \o mappedSkill \o "']"

acmeSkillNotAvailable(skill) ==
  "Skill '" \o Join(skill) \o "' not available on form, skipping."

\* the skill loop of step 2
RECURSIVE acmeSkillSteps_uncounted(_)
acmeSkillSteps_uncounted(skills) ==
  IF skills = <<>> THEN <<>>
  ELSE << Act("2", "check",
              acmeSkillCheckbox(mapSkill("acme", Head(skills))), <<>>,
              "none") >>
       \o acmeSkillSteps_uncounted(Tail(skills))

RECURSIVE acmeSkillSteps(_)
acmeSkillSteps(skills) ==
  IF skills = <<>> THEN <<>>
  ELSE LET skill == Head(skills)
           mappedSkill == mapSkill("acme", skill)
           skillCheckbox == acmeSkillCheckbox(mappedSkill)
       IN  (IF mappedSkill \in {Null, ""}
              THEN << logStep("2", acmeSkillNotAvailable(skill)) >>
              ELSE << Count("2", skillCheckbox),
                      SkipWhen(Act("2", "check", skillCheckbox, <<>>, "none"),
                               {"absent"}),
                      SkipWhen(logStep("2", acmeSkillNotAvailable(skill)),
                               {"present"}) >>)
           \o acmeSkillSteps(Tail(skills))

acmeFillStep1(p) ==
  << typeText("1", "#first-name", p.firstName),
     typeText("1", "#last-name", p.lastName),
     typeText("1", "#email", p.email),
     typeText("1", "#phone", p.phone),
     typeText("1", "#location", p.location) >>
  \o fillOptionalFieldWithLogs("1", "#linkedin", p.linkedIn)
  \o fillOptionalFieldWithLogs("1", "#portfolio", p.portfolio)

acmeFillStep2(p, o) ==
  << setFile("2", "#resume"),
     selectValue("2", "#experience-level",
                 mapExperienceLevel("acme", p.experienceLevel)),
     selectValue("2", "#education", mapEducation("acme", p.education)),
     Reveals(typeText("2", "#school", p.school), "#school-dropdown li"),
     waitVisibleWithRetry("2", "#school-dropdown li", o.typeaheadMs,
                          "Acme school suggestions did not appear",
                          ACME_TYPEAHEAD_RETRY_PROFILE,
                          "Acme", "wait for school suggestions"),
     withOptionalRetry("2",
       << [ Step EXCEPT !.k = "pick", !.section = "2", !.method = "click",
                        !.target = "#school-dropdown li", !.value = p.school,
                        !.errorMessage = "No school suggestion matched '"
                                           \o Join(p.school) \o "'",
                        !.observes = {"exact", "none"} ] >>,
       ACME_TYPEAHEAD_RETRY_PROFILE, "Acme", "select school suggestion"),
     pause >>
  \o acmeSkillSteps(p.skills)

\* step 3: the visa sponsorship follow-up, shown when work is authorized
acmeVisaSteps_withoutWait(p, o) ==
  IF p.workAuthorized
    THEN << logStep("3", "Work authorization is yes, setting visa sponsorship response."),
            Act("3", "check",
                "input[name='visaSponsorship'][value='"
                  \o (IF p.requiresVisa THEN "yes" ELSE "no") \o "']",
                <<>>, "none") >>
    ELSE << logStep("3", "Work authorization is no, visa sponsorship follow-up is not shown.") >>

acmeVisaSteps(p, o) ==
  IF p.workAuthorized
    THEN << logStep("3", "Work authorization is yes, setting visa sponsorship response."),
            waitVisibleWithRetry("3", "#visa-sponsorship-group",
              o.conditionalRevealMs,
              "Acme visa sponsorship follow-up did not become visible",
              SINGLE_ATTEMPT_RETRY_PROFILE,
              "Acme", "wait for visa sponsorship follow-up"),
            Act("3", "check",
                "input[name='visaSponsorship'][value='"
                  \o (IF p.requiresVisa THEN "yes" ELSE "no") \o "']",
                <<>>, "none") >>
    ELSE << logStep("3", "Work authorization is no, visa sponsorship follow-up is not shown.") >>

\* step 3: the referral source and its free-text details
acmeReferralSteps_mappedDetails(p, o) ==
  LET mappedReferralSource == mapReferralSource("acme", p.referralSource)
  IN  << Reveals(selectValue("3", "#referral", mappedReferralSource),
                 IF mappedReferralSource = "other"
                   THEN "#referral-other-group" ELSE "none") >>
      \o (IF mappedReferralSource = "other"
            THEN << logStep("3", "Referral source is other, filling additional referral details."),
                    waitVisibleWithRetry("3", "#referral-other-group",
                      o.conditionalRevealMs,
                      "Acme referral other field did not become visible",
                      SINGLE_ATTEMPT_RETRY_PROFILE,
                      "Acme", "wait for referral other details field"),
                    typeText("3", "#referral-other",
                             <<"o", "t", "h", "e", "r">>) >>
            ELSE <<>>)

acmeReferralSteps(p, o) ==
  LET mappedReferralSource == mapReferralSource("acme", p.referralSource)
      referralDetails ==
        IF toLowerCase(trim(p.referralSource)) = <<"o", "t", "h", "e", "r">>
          THEN <<"O", "t", "h", "e", "r", " ", "s", "o", "u", "r", "c", "e">>
          ELSE p.referralSource
  IN  << Reveals(selectValue("3", "#referral", mappedReferralSource),
                 IF mappedReferralSource = "other"
                   THEN "#referral-other-group" ELSE "none") >>
      \o (IF mappedReferralSource = "other"
            THEN << logStep("3", "Referral source is other, filling additional referral details."),
                    waitVisibleWithRetry("3", "#referral-other-group",
                      o.conditionalRevealMs,
                      "Acme referral other field did not become visible",
                      SINGLE_ATTEMPT_RETRY_PROFILE,
                      "Acme", "wait for referral other details field"),
                    typeText("3", "#referral-other", referralDetails) >>
            ELSE <<>>)

acmeFillStep3(p, o) ==
  << Reveals(Act("3", "check",
                 "input[name='workAuth'][value='"
                   \o (IF p.workAuthorized THEN "yes" ELSE "no") \o "']",
                 <<>>, "none"),
             IF p.workAuthorized THEN "#visa-sponsorship-group"
                                 ELSE "none") >>
  \o acmeVisaSteps(p, o)
  \o << fillText("3", "#start-date", p.earliestStartDate) >>
  \o (IF p.salaryExpectation # <<>>
        THEN << logStep("3", "Salary expectation provided, filling field."),
                fillText("3", "#salary-expectation", p.salaryExpectation) >>
        ELSE << logStep("3", "Salary expectation not provided, leaving optional field empty.") >>)
  \o acmeReferralSteps(p, o)
  \o << typeText("3", "#cover-letter", p.coverLetter) >>

\* acmeHandler.fillForm
acmeFillForm_continueBeforeFields(p, o) ==
  << acmeEnsureActive("1", o) >>
  \o clickStepContinue("1", "2")
  \o acmeFillStep1(p)
  \o << waitForActiveStep("2", o), pause >>
  \o runSection(acmeEnsureActive("2", o), acmeFillStep2(p, o))
  \o clickStepContinue("2", "3")
  \o << waitForActiveStep("3", o), pause >>
  \o runSection(acmeEnsureActive("3", o), acmeFillStep3(p, o))
  \o clickStepContinue("3", "4")
  \o << waitForActiveStep("4", o), pause >>

acmeFillForm(p, o) ==
  runSection(acmeEnsureActive("1", o), acmeFillStep1(p))
  \o clickStepContinue("1", "2")
  \o << waitForActiveStep("2", o), pause >>
  \o runSection(acmeEnsureActive("2", o), acmeFillStep2(p, o))
  \o clickStepContinue("2", "3")
  \o << waitForActiveStep("3", o), pause >>
  \o runSection(acmeEnsureActive("3", o), acmeFillStep3(p, o))
  \o clickStepContinue("3", "4")
  \o << waitForActiveStep("4", o), pause >>

\* acmeHandler.submit
acmeSubmit_withoutConfirmationWait(o) ==
  runSection(acmeEnsureActive("4", o),
    << Act("4", "check", "#terms-agree", <<>>, "none"),
       withOptionalRetry("4",
         << pause >>
         \o humanClickWithOptionalPause("4", "#submit-btn", "#success-page",
                                        FALSE, FALSE),
         ACME_SUBMIT_RETRY_PROFILE,
         "Acme", "submit application and wait for success") >>)
  \o << innerText("#confirmation-id") >>

acmeSubmit(o) ==
  runSection(acmeEnsureActive("4", o),
    << Act("4", "check", "#terms-agree", <<>>, "none"),
       withOptionalRetry("4",
         << pause >>
         \o humanClickWithOptionalPause("4", "#submit-btn", "#success-page",
                                        FALSE, FALSE)
         \o << waitVisibleWithRetry("4", "#success-page", o.confirmationMs,
                 "Acme success page did not appear after submit",
                 SINGLE_ATTEMPT_RETRY_PROFILE,
                 "Acme", "wait for success page") >>,
         ACME_SUBMIT_RETRY_PROFILE,
         "Acme", "submit application and wait for success") >>)
  \o << innerText("#confirmation-id") >>

-----------------------------------------------------------------------------
(* handlers/globex.ts *)

GlobexSectionIds == <<"contact", "qualifications", "additional">>

toSectionSelector(sectionId) ==
  ".application-section[data-section='" \o sectionId \o "'] .section-header"

toSectionOpenStepName(sectionId) == "open " \o sectionId \o " section"

globexSectionOpen(sectionId) == toSectionSelector(sectionId) \o ".open"

globexDidNotOpen(sectionId) == "Globex section '" \o sectionId \o "' did not open"

resolveGlobexTypeaheadTimeoutMs(o) == Max(o.typeaheadMs, 6000)

resolveGlobexConfirmationTimeoutMs(o) == Max(o.confirmationMs, 7000)

withOptionalGlobexRetry(section, operation, retryProfile, step) ==
  withOptionalRetry(section, operation, retryProfile, "Globex", step)

\* globexSectionController.ensureActive
globexEnsureActive(sectionId, o) ==
  Ensures(
    withOptionalGlobexRetry("none",
      << Read("none", "getAttribute", toSectionSelector(sectionId),
              globexSectionOpen(sectionId), {}) >>
      \o [i \in 1..2 |->
            SkipWhen(humanClickWithOptionalPause("none",
                       toSectionSelector(sectionId),
                       globexSectionOpen(sectionId), TRUE, TRUE)[i],
                     {"open"})]
      \o << waitVisibleWithRetry("none", globexSectionOpen(sectionId),
              o.sectionOpenMs, globexDidNotOpen(sectionId),
              SINGLE_ATTEMPT_RETRY_PROFILE, "Globex",
              "verify " \o sectionId \o " section is open") >>,
      GLOBEX_SECTION_OPEN_RETRY_PROFILE,
      toSectionOpenStepName(sectionId)),
    sectionId)

\* fillGlobexSchool
fillGlobexSchool_queryOutsideRetry(schoolName, o) ==
  withOptionalGlobexRetry("qualifications",
    << waitVisibleWithRetry("qualifications", "#g-school-results.open",
         resolveGlobexTypeaheadTimeoutMs(o),
         "Globex school results dropdown did not open",
         SINGLE_ATTEMPT_RETRY_PROFILE,
         "Globex", "wait for school results dropdown"),
       [ Step EXCEPT !.k = "choose", !.section = "qualifications",
                     !.method = "click", !.target = "#g-school-results li",
                     !.value = schoolName,
                     !.errorMessage =
                       "No selectable school options found in Globex dropdown" ],
       SkipWhen(pause, {"exact"}) >>,
    GLOBEX_TYPEAHEAD_RETRY_PROFILE,
    "select school suggestion")

fillGlobexSchool(schoolName, o) ==
  withOptionalGlobexRetry("qualifications",
    << Reveals(typeText("qualifications", "#g-school", slice(schoolName, 8)),
               "#g-school-results.open"),
       pause,
       waitVisibleWithRetry("qualifications", "#g-school-results.open",
         resolveGlobexTypeaheadTimeoutMs(o),
         "Globex school results dropdown did not open",
         SINGLE_ATTEMPT_RETRY_PROFILE,
         "Globex", "wait for school results dropdown"),
       [ Step EXCEPT !.k = "choose", !.section = "qualifications",
                     !.method = "click", !.target = "#g-school-results li",
                     !.value = schoolName,
                     !.errorMessage =
                       "No selectable school options found in Globex dropdown",
                     !.observes = {"exact", "fallback", "none"} ],
       SkipWhen(pause, {"exact"}) >>,
    GLOBEX_TYPEAHEAD_RETRY_PROFILE,
    "select school suggestion")

globexSkillChip(mappedSkill) ==
  "#g-skills .chip[data-skill='" \o mappedSkill \o "']"

globexSkillNoMapping(skill) ==
  "Skill '" \o Join(skill) \o "' has no mapping for Globex chips, skipping."

globexSkillNotPresent(mappedSkill) ==
  "Mapped skill '" \o mappedSkill \o "' not present in UI, skipping."

\* `Selected ${selectedGlobexSkills} matching skills.`, up to the count
globexSkillsSelected == "Selected matching skills: "

RECURSIVE globexSkillSteps_clickUnread(_)
globexSkillSteps_clickUnread(skills) ==
  IF skills = <<>>
    THEN << [logStep("qualifications", globexSkillsSelected)
               EXCEPT !.counted = TRUE] >>
  ELSE LET skill == Head(skills)
           mappedSkill == mapSkill("globex", skill)
           chip == globexSkillChip(mappedSkill)
       IN  (IF mappedSkill \in {Null, ""}
              THEN << logStep("qualifications", globexSkillNoMapping(skill)) >>
              ELSE << Count("qualifications", chip),
                      SkipWhen(logStep("qualifications",
                                       globexSkillNotPresent(mappedSkill)),
                               {"present"}),
                      SkipWhen(ClassIncludes("qualifications", chip,
                                             "selected"),
                               {"absent"}) >>
                   \o [i \in 1..2 |->
                         SkipWhen([humanClickWithOptionalPause(
                                     "qualifications", chip,
                                     chip \o ".selected", TRUE, TRUE)[i]
                                     EXCEPT !.immediate = TRUE,
                                            !.counted = (i = 1)],
                                  {"absent"})])
           \o globexSkillSteps_clickUnread(Tail(skills))

\* the skill loop of the qualifications section
RECURSIVE globexSkillSteps(_)
globexSkillSteps(skills) ==
  IF skills = <<>>
    THEN << [logStep("qualifications", globexSkillsSelected)
               EXCEPT !.counted = TRUE] >>
  ELSE LET skill == Head(skills)
           mappedSkill == mapSkill("globex", skill)
           chip == globexSkillChip(mappedSkill)
       IN  (IF mappedSkill \in {Null, ""}
              THEN << logStep("qualifications", globexSkillNoMapping(skill)) >>
              ELSE << Count("qualifications", chip),
                      SkipWhen(logStep("qualifications",
                                       globexSkillNotPresent(mappedSkill)),
                               {"present"}),
                      SkipWhen(ClassIncludes("qualifications", chip,
                                             "selected"),
                               {"absent"}) >>
                   \o [i \in 1..2 |->
                         SkipWhen([humanClickWithOptionalPause(
                                     "qualifications", chip,
                                     chip \o ".selected", TRUE, TRUE)[i]
                                     EXCEPT !.immediate = TRUE,
                                            !.counted = (i = 1)],
                                  {"absent", "selected"})])
           \o globexSkillSteps(Tail(skills))

globexFillContact(p) ==
  << typeText("contact", "#g-fname", p.firstName),
     typeText("contact", "#g-lname", p.lastName),
     typeText("contact", "#g-email", p.email),
     typeText("contact", "#g-phone", p.phone),
     typeText("contact", "#g-city", normalizeCity(p.location)) >>
  \o fillOptionalFieldWithLogs("contact", "#g-linkedin", p.linkedIn)
  \o fillOptionalFieldWithLogs("contact", "#g-website", p.portfolio)

globexFillQualifications(p, o) ==
  << setFile("qualifications", "#g-resume"),
     selectValue("qualifications", "#g-experience",
                 mapExperienceLevel("globex", p.experienceLevel)),
     selectValue("qualifications", "#g-degree",
                 mapEducation("globex", p.education)),
     fillGlobexSchool(p.school, o),
     scrollIntoView("qualifications", "#g-skills") >>
  \o globexSkillSteps(p.skills)

\* additional: the visa toggle, shown when work is authorized
globexVisaSteps_unconditional(p, o) ==
  << logStep("additional", "Work authorization is true, evaluating visa toggle."),
     waitVisibleWithRetry("additional", "#g-visa-block.visible",
       o.conditionalRevealMs,
       "Globex visa block did not become visible",
       SINGLE_ATTEMPT_RETRY_PROFILE,
       "Globex", "wait for visa block"),
     scrollIntoView("additional", "#g-visa-toggle"),
     pause >>
  \o setToggleState("additional", "#g-visa-toggle", p.requiresVisa, "none")
  \o << pause >>

globexVisaSteps(p, o) ==
  IF p.workAuthorized
    THEN << logStep("additional", "Work authorization is true, evaluating visa toggle."),
            waitVisibleWithRetry("additional", "#g-visa-block.visible",
              o.conditionalRevealMs,
              "Globex visa block did not become visible",
              SINGLE_ATTEMPT_RETRY_PROFILE,
              "Globex", "wait for visa block"),
            scrollIntoView("additional", "#g-visa-toggle"),
            pause >>
         \o setToggleState("additional", "#g-visa-toggle", p.requiresVisa,
                           "none")
         \o << pause >>
    ELSE << logStep("additional", "Work authorization is false, visa toggle section is not applicable.") >>

\* additional: the referral source and its free-text details
globexReferralSteps(p, o) ==
  LET sourceValue == mapReferralSource("globex", p.referralSource)
  IN  << Reveals(selectValue("additional", "#g-source", sourceValue),
                 IF sourceValue = "other"
                   THEN "#g-source-other-block.visible" ELSE "none") >>
      \o (IF sourceValue = "other"
            THEN << logStep("additional", "Referral mapped to other, filling source details."),
                    waitVisibleWithRetry("additional",
                      "#g-source-other-block.visible",
                      o.conditionalRevealMs,
                      "Globex source-other block did not become visible",
                      SINGLE_ATTEMPT_RETRY_PROFILE,
                      "Globex", "wait for source-other block"),
                    typeText("additional", "#g-source-other",
                             p.referralSource) >>
            ELSE <<>>)

globexFillAdditional(p, o) ==
  << scrollIntoView("additional", "#g-work-auth-toggle"), pause >>
  \o setToggleState("additional", "#g-work-auth-toggle", p.workAuthorized,
                    IF p.workAuthorized THEN "#g-visa-block.visible"
                                        ELSE "none")
  \o << pause >>
  \o globexVisaSteps(p, o)
  \o << fillText("additional", "#g-start-date", p.earliestStartDate),
        Act("additional", "evaluate", "#g-salary",
            normalizeSalary(p.salaryExpectation), "none") >>
  \o globexReferralSteps(p, o)
  \o << typeText("additional", "#g-motivation", p.coverLetter),
        Act("additional", "check", "#g-consent", <<>>, "none") >>

\* globexHandler.fillForm
globexFillForm(p, o) ==
  runSection(globexEnsureActive("contact", o), globexFillContact(p))
  \o runSection(globexEnsureActive("qualifications", o),
                globexFillQualifications(p, o))
  \o runSection(globexEnsureActive("additional", o),
                globexFillAdditional(p, o))

\* globexHandler.submit
globexSubmit(o) ==
  << Act("none", "check", "#g-consent", <<>>, "none"),
     withOptionalGlobexRetry("none",
       << scrollIntoView("none", "#globex-submit"), pause >>
       \o humanClickWithOptionalPause("none", "#globex-submit",
                                      "#globex-confirmation", FALSE, FALSE)
       \o << waitVisibleWithRetry("none", "#globex-confirmation",
               resolveGlobexConfirmationTimeoutMs(o),
               "Globex confirmation section did not appear after submit",
               SINGLE_ATTEMPT_RETRY_PROFILE,
               "Globex", "wait for confirmation section") >>,
       GLOBEX_SUBMIT_RETRY_PROFILE,
       "submit application and wait for confirmation"),
     innerText("#globex-ref") >>

\* the handlers registry and the method a run is in
handlers == <<"acme", "globex">>

handlerProgram(platform, method, p, o) ==
  IF platform = "acme"
    THEN IF method = "fillForm" THEN acmeFillForm(p, o) ELSE acmeSubmit(o)
    ELSE IF method = "fillForm" THEN globexFillForm(p, o) ELSE globexSubmit(o)

SectionRank(sectionId) ==
  IF sectionId \in Range(AcmeSectionIds)
    THEN CHOOSE i \in DOMAIN AcmeSectionIds : AcmeSectionIds[i] = sectionId
  ELSE IF sectionId \in Range(GlobexSectionIds)
    THEN CHOOSE i \in DOMAIN GlobexSectionIds : GlobexSectionIds[i] = sectionId
  ELSE 0

-----------------------------------------------------------------------------
(* The page (external collaborator).  A marker the page is about to show is
   pending until the page settles; a wait finds a marker only once it is
   visible.  A page may also never answer. *)

AcmeStepMarkers == {acmeStepActive(s) : s \in Range(AcmeSectionIds)}

\* exactly one wizard step is active at a time
Exclusive(marker) ==
  IF marker \in AcmeStepMarkers THEN AcmeStepMarkers \ {marker} ELSE {}

\* the markers a freshly loaded page of the target may show
InitialMarkers(url) ==
  IF includes(url, <<"/", "a", "c", "m", "e", ".", "h", "t", "m", "l">>)
    THEN {acmeStepActive("1")}
    ELSE {globexSectionOpen("contact")}

\* the skill controls of the form a target serves: the standard form has
\* every token of the platform's vocabulary, the alternate form lacks one of
\* them and, on Globex, comes with a chip already selected
PageForm(target) ==
  IF includes(target.url, <<"/", "a", "c", "m", "e", ".", "h", "t", "m", "l">>)
    THEN LET all == {acmeSkillCheckbox(v) : v \in TableValues(acmeSkillAliases)}
         IN  IF target.form = "standard" THEN all
             ELSE all \ {acmeSkillCheckbox("git")}
    ELSE LET all == {globexSkillChip(v) :
                       v \in TableValues(mappingRegistry.globex.skill)}
         IN  IF target.form = "standard" THEN all
             ELSE (all \ {globexSkillChip("git")})
                    \cup {globexSkillChip("react") \o ".selected"}

\* the page after an action on an element, a click on a toggle included
PageAfter(instr) ==
  IF instr.reveals = "none" THEN {<<vis, pend>>}
  ELSE IF instr.immediate
    THEN IF instr.reveals \in vis
           THEN {<<vis \ {instr.reveals}, pend>>}
           ELSE {<<vis \cup {instr.reveals}, pend>>}
  ELSE IF instr.reveals \in vis
    THEN IF instr.toggle THEN {<<vis \ {instr.reveals}, pend>>}
                         ELSE {<<vis, pend>>}
  ELSE IF instr.reveals \in pend
    THEN IF instr.toggle
           THEN {<<vis, pend>>, <<vis, pend \ {instr.reveals}>>}
           ELSE {<<vis, pend>>}
  ELSE {<<vis, pend>>, <<vis, pend \cup {instr.reveals}>>}

\* what locator.innerText() of the confirmation token may give
ConfirmationTexts(platform) ==
  IF platform = "acme"
    THEN { <<"A", "C", "M", "-", "4", "F", "7", "A">>, <<" ", "A", "C", "M", "-", "4", "F", "7", "A", " ">> }
    ELSE { <<"G", "X", "-", "9", "1", "C", "2">>, <<" ", "G", "X", "-", "9", "1", "C", "2", " ">> }

-----------------------------------------------------------------------------
(* The handler method being run: its awaited step and how a step ends *)

Top == program[ip]

Cur == IF bip = 0 THEN Top ELSE Top.body[bip]

EntryBip(instr) == IF instr.k = "retry" THEN 1 ELSE 0

Running == pc = "handler" /\ mode = "run"

RetryOptionsOf(instr) ==
  [ attempts |-> instr.retryProfile.attempts,
    initialDelayMs |-> instr.retryProfile.initialDelayMs,
    backoffMultiplier |-> instr.retryProfile.backoffMultiplier,
    scope |-> instr.scope, step |-> instr.step,
    hasShouldRetry |-> FALSE, shouldRetry |-> AlwaysRetry ]

waitForRequiredSelector_detailsOnly(instr) ==
  << "page.waitForSelector: Timeout " \o ToString(instr.timeoutMs)
       \o "ms exceeded." >>

\* field-filler.ts waitForRequiredSelector: the error of a timed-out wait
waitForRequiredSelector(instr) ==
  << instr.errorMessage, ". ",
     "page.waitForSelector: Timeout " \o ToString(instr.timeoutMs)
       \o "ms exceeded." >>

\* the error of a Playwright call that fails
PlaywrightError(instr) ==
  << "locator." \o instr.method \o ": Timeout 30000ms exceeded." >>

\* the awaited step resolved: the next step of the callback, of the method,
\* or the return of the method
Advance(clicks, timedOut) ==
  IF bip > 0 /\ bip < Len(Top.body)
    THEN /\ bip' = bip + 1
         /\ attemptWait' = 1
         /\ callClicks' = clicks
         /\ timeouts' = timedOut
         /\ UNCHANGED <<pc, phase, ip, attemptOuter, mode, runError,
                        ensured, failedEnsure, prevCallClicks>>
    ELSE /\ ensured' = IF Top.ensures # "none"
                         THEN ensured \cup {Top.ensures} ELSE ensured
         /\ prevCallClicks' = clicks
         /\ callClicks' = 0
         /\ timeouts' = 0
         /\ attemptOuter' = 1
         /\ attemptWait' = 1
         /\ IF ip < Len(program)
              THEN /\ ip' = ip + 1
                   /\ bip' = EntryBip(program[ip + 1])
                   /\ UNCHANGED pc
              ELSE /\ pc' = "methodReturned"
                   /\ bip' = 0
                   /\ UNCHANGED ip
         /\ UNCHANGED <<phase, mode, runError, failedEnsure>>

\* the error leaves the handler method and reaches the catch of applyToJob
Throw(message, clicks, timedOut) ==
  /\ runError' = message
  /\ pc' = "catch"
  /\ failedEnsure' = IF Top.ensures # "none" THEN Top.ensures ELSE failedEnsure
  /\ callClicks' = clicks
  /\ timeouts' = timedOut
  /\ UNCHANGED <<phase, ip, bip, attemptOuter, attemptWait, mode, ensured,
                 prevCallClicks>>

\* withOptionalRetry, withOptionalGlobexRetry:
\* if (!context.options.features.enableRetries) return operation();
retriesBypassed(enableRetries) == ~enableRetries

waitRetriesBypassed_never(passed, enableRetries) == FALSE

\* waitVisibleWithRetry: if (enableRetries === false) { one wait; return; }
\* enableRetries is an optional argument: passed is FALSE when the caller
\* leaves it out and the function sees undefined
waitRetriesBypassed(passed, enableRetries) == passed /\ enableRetries = FALSE

\* the awaited step rejected with message: inside a retried operation the
\* catch block of withRetry decides, otherwise the error leaves the method
Raise(message, clicks, timedOut) ==
  IF bip > 0 /\ ~retriesBypassed(runtimeOptions.enableRetries)
    THEN LET opts == RetryOptionsOf(Top)
             error == [isError |-> TRUE, message |-> message]
         IN  IF canRetryByCount(attemptOuter, opts)
                  /\ canRetryByPredicate(opts, error)
               THEN /\ mode' = "sleepBlock"
                    /\ callClicks' = clicks
                    /\ timeouts' = timedOut
                    /\ UNCHANGED <<pc, phase, ip, bip, attemptOuter,
                                   attemptWait, runError, ensured,
                                   failedEnsure, prevCallClicks>>
               ELSE Throw(RetryFailure(opts, attemptOuter, message),
                          clicks, timedOut)
    ELSE Throw(message, clicks, timedOut)

-----------------------------------------------------------------------------
(* The steps of a handler method *)

\* what a step of a handler method leaves alone
outerVars == <<retryVars, callVars, mainVars, profile, runtimeOptions, handler, page,
               program, exception>>

\* a step guarded by an observation that excludes it
StepSkipped ==
  /\ Running
  /\ seen \in Cur.skipWhen
  /\ Advance(callClicks, timeouts)
  /\ UNCHANGED <<seen, vis, pend, touched, confirmation, observed, logged, selectedGlobexSkills,
                 result>>
  /\ UNCHANGED outerVars

\* await context.human.pause(...)
StepPause ==
  /\ Running
  /\ Cur.k = "pause"
  /\ seen \notin Cur.skipWhen
  /\ Advance(callClicks, timeouts)
  /\ UNCHANGED <<seen, vis, pend, touched, confirmation, observed, logged, selectedGlobexSkills,
                 result>>
  /\ UNCHANGED outerVars

\* context.logStep(...): synchronous, the method goes on to its next await
StepLog ==
  /\ Running
  /\ Cur.k = "log"
  /\ seen \notin Cur.skipWhen
  /\ logged' = logged \cup {IF Cur.counted
                               THEN Cur.value \o ToString(selectedGlobexSkills)
                               ELSE Cur.value}
  /\ UNCHANGED selectedGlobexSkills
  /\ Advance(callClicks, timeouts)
  /\ UNCHANGED <<seen, vis, pend, touched, confirmation, observed, result>>
  /\ UNCHANGED outerVars

\* a Playwright call that fills, checks, selects, uploads or scrolls
StepAct ==
  /\ Running
  /\ Cur.k = "act"
  /\ seen \notin Cur.skipWhen
  /\ \E rejected \in BOOLEAN :
       IF rejected
         THEN /\ Raise(PlaywrightError(Cur), callClicks, timeouts)
              /\ UNCHANGED <<vis, pend, touched>>
         ELSE /\ touched' = touched \cup {<<Cur.section, Cur.target, Cur.value>>}
              /\ \E after \in PageAfter(Cur) :
                   /\ vis' = after[1]
                   /\ pend' = after[2]
              /\ Advance(callClicks, timeouts)
  /\ UNCHANGED <<seen, confirmation, observed, logged, selectedGlobexSkills,
                 result>>
  /\ UNCHANGED outerVars

\* scrollIntoView + hoverAndClick of humanClickWithOptionalPause, toggle.click()
StepClick ==
  /\ Running
  /\ Cur.k = "click"
  /\ seen \notin Cur.skipWhen
  /\ \E rejected \in BOOLEAN :
       IF rejected
         THEN /\ Raise(PlaywrightError(Cur), callClicks, timeouts)
              /\ UNCHANGED <<vis, pend, touched>>
         ELSE /\ touched' = touched \cup {<<Cur.section, Cur.target, Cur.value>>}
              /\ \E after \in PageAfter(Cur) :
                   /\ vis' = after[1]
                   /\ pend' = after[2]
              /\ Advance(callClicks + 1, timeouts)
  /\ selectedGlobexSkills' =
       IF Cur.counted /\ pc' # "catch" THEN selectedGlobexSkills + 1
                                       ELSE selectedGlobexSkills
  /\ UNCHANGED <<seen, confirmation, observed, logged, result>>
  /\ UNCHANGED outerVars

\* locator.getAttribute(...) / locator.count()
StepRead ==
  /\ Running
  /\ Cur.k = "read"
  /\ seen \notin Cur.skipWhen
  /\ \E rejected \in BOOLEAN :
       IF rejected
         THEN /\ Raise(PlaywrightError(Cur), callClicks, timeouts)
              /\ UNCHANGED <<seen, touched>>
         ELSE /\ seen' \in (IF Cur.marker # "none"
                              THEN {IF Cur.marker \in vis THEN Cur.reads[1]
                                                          ELSE Cur.reads[2]}
                              ELSE Cur.observes)
              /\ UNCHANGED touched
              /\ Advance(callClicks, timeouts)
  /\ UNCHANGED <<vis, pend, confirmation, observed, logged, selectedGlobexSkills, result>>
  /\ UNCHANGED outerVars

\* choosing a suggestion: throws when none can be chosen, clicks otherwise
StepPick ==
  /\ Running
  /\ Cur.k = "pick"
  /\ \E found \in Cur.observes :
       IF found = "none"
         THEN /\ Raise(<<Cur.errorMessage>>, callClicks, timeouts)
              /\ UNCHANGED <<seen, touched>>
         ELSE /\ seen' = found
              /\ touched' = touched \cup {<<Cur.section, Cur.target, Cur.value>>}
              /\ Advance(callClicks + 1, timeouts)
  /\ UNCHANGED <<vis, pend, confirmation, observed, logged, selectedGlobexSkills, result>>
  /\ UNCHANGED outerVars

\* an item of #g-school-results; noResults: it has class typeahead-no-results
SchoolResult(text, noResults) == [text |-> text, noResults |-> noResults]

NoResultsPlaceholder ==
  SchoolResult(<<"N", "o", " ", "r", "e", "s", "u", "l", "t", "s", " ", "f", "o", "u", "n", "d">>, TRUE)

\* the lists the results container may hold when the handler looks at it:
\* nothing yet, the placeholder alone, and results in several orders
SchoolResultLists(schoolName) ==
  LET exact == SchoolResult(schoolName, FALSE)
      otherCase == SchoolResult(toLowerCase(schoolName), FALSE)
      longer == SchoolResult(schoolName \o <<" ", "O", "n", "l", "i", "n", "e">>, FALSE)
      other == SchoolResult(slice(schoolName, 8) \o <<" ", "C", "o", "l", "l", "e", "g", "e">>, FALSE)
  IN  { <<>>,
        <<NoResultsPlaceholder>>,
        <<other, exact>>,
        <<longer, exact>>,
        <<other, otherCase>>,
        <<NoResultsPlaceholder, other, longer>> }

\* page.locator("#g-school-results li", { hasText: schoolName }): the items
\* whose text contains schoolName, letter case ignored
hasText(list, schoolName) ==
  { i \in DOMAIN list :
      includes(toLowerCase(list[i].text), toLowerCase(schoolName)) }

\* page.locator("#g-school-results li:not(.typeahead-no-results)")
fallbackOption(list) == { i \in DOMAIN list : ~list[i].noResults }

first(indices) == CHOOSE i \in indices : \A j \in indices : i <= j

\* the item fillGlobexSchool clicks: exactMatch.first() when the count of
\* exactMatch is positive, fallbackOption.first() otherwise, 0 when it throws
clickedSchoolResult(list, schoolName) ==
  IF hasText(list, schoolName) # {} THEN first(hasText(list, schoolName))
  ELSE IF fallbackOption(list) # {} THEN first(fallbackOption(list))
  ELSE 0

\* fillGlobexSchool after the wait: exactMatch.count(), the click of the
\* first match or of the first selectable result, the throw when none
StepChoose ==
  /\ Running
  /\ Cur.k = "choose"
  /\ \E list \in SchoolResultLists(Cur.value) :
       /\ chosen' = [ results |-> list,
                      clicked |-> clickedSchoolResult(list, Cur.value) ]
       /\ IF clickedSchoolResult(list, Cur.value) = 0
            THEN /\ Raise(<<Cur.errorMessage>>, callClicks, timeouts)
                 /\ UNCHANGED <<seen, touched>>
            ELSE /\ seen' = IF hasText(list, Cur.value) # {}
                              THEN "exact" ELSE "fallback"
                 /\ touched' = touched \cup {<<Cur.section, Cur.target, Cur.value>>}
                 /\ Advance(callClicks + 1, timeouts)
  /\ UNCHANGED <<vis, pend, confirmation, observed, logged, selectedGlobexSkills, result>>
  /\ UNCHANGED <<retryVars, called, given, returned, engineVars, mainVars,
                 profile, runtimeOptions, handler, page, program, exception>>

\* waitVisibleWithRetry: one attempt of waitForRequiredSelector
StepWait ==
  /\ Running
  /\ Cur.k = "wait"
  /\ IF Cur.marker \in vis
       THEN /\ observed' = observed \cup {Cur.marker}
            /\ Advance(callClicks, timeouts)
       ELSE /\ UNCHANGED observed
            /\ IF waitRetriesBypassed(TRUE, runtimeOptions.enableRetries)
                 THEN Raise(waitForRequiredSelector(Cur), callClicks,
                            timeouts + 1)
                 ELSE IF canRetryByCount(attemptWait, RetryOptionsOf(Cur))
                   THEN /\ mode' = "sleepWait"
                        /\ timeouts' = timeouts + 1
                        /\ UNCHANGED <<pc, phase, ip, bip, attemptOuter,
                                       attemptWait, runError, ensured,
                                       failedEnsure, callClicks,
                                       prevCallClicks>>
                   ELSE Raise(RetryFailure(RetryOptionsOf(Cur), attemptWait,
                                           waitForRequiredSelector(Cur)),
                              callClicks, timeouts + 1)
  /\ UNCHANGED <<seen, vis, pend, touched, confirmation, logged, selectedGlobexSkills, result>>
  /\ UNCHANGED outerVars

\* (await page.locator(...).innerText()).trim()
StepToken ==
  /\ Running
  /\ Cur.k = "token"
  /\ \E rejected \in BOOLEAN :
       IF rejected
         THEN /\ Raise(PlaywrightError(Cur), callClicks, timeouts)
              /\ UNCHANGED confirmation
         ELSE /\ \E text \in ConfirmationTexts(handler) :
                   confirmation' = trim(text)
              /\ Advance(callClicks, timeouts)
  /\ UNCHANGED <<seen, vis, pend, touched, observed, logged, selectedGlobexSkills, result>>
  /\ UNCHANGED outerVars

\* the backoff sleep of waitVisibleWithRetry ends: next attempt of the wait
SleepWaitElapses ==
  /\ pc = "handler"
  /\ mode = "sleepWait"
  /\ mode' = "run"
  /\ attemptWait' = attemptWait + 1
  /\ UNCHANGED <<pc, phase, ip, bip, attemptOuter, runError, result, seen,
                 vis, pend, histVars>>
  /\ UNCHANGED outerVars

\* the backoff sleep of a retried operation ends: the callback runs again
SleepBlockElapses ==
  /\ pc = "handler"
  /\ mode = "sleepBlock"
  /\ mode' = "run"
  /\ attemptOuter' = attemptOuter + 1
  /\ bip' = 1
  /\ attemptWait' = 1
  /\ UNCHANGED <<pc, phase, ip, runError, result, seen, vis, pend, histVars>>
  /\ UNCHANGED outerVars

\* the page shows a marker it was about to show
PageSettles ==
  /\ pc = "handler"
  /\ \E marker \in pend :
       /\ vis' = (vis \ Exclusive(marker)) \cup {marker}
       /\ pend' = pend \ {marker}
  /\ UNCHANGED <<pc, phase, runError, result, ctlVars, histVars>>
  /\ UNCHANGED outerVars

-----------------------------------------------------------------------------
(* automator.ts : detectHandler, applyToJob, main *)

\* what the page's DOM may hold of the markers the handlers look for
PageDoms ==
  [ hasApplicationForm : BOOLEAN, hasProgressBar : BOOLEAN,
    hasGlobexForm : BOOLEAN, hasSections : BOOLEAN ]

\* acmeHandler.matches, globexHandler.matches
matches(platform, url, dom) ==
  IF platform = "acme"
    THEN \/ includes(url, <<"/", "a", "c", "m", "e", ".", "h", "t", "m", "l">>)
         \/ dom.hasApplicationForm /\ dom.hasProgressBar
    ELSE \/ includes(url, <<"/", "g", "l", "o", "b", "e", "x", ".", "h", "t", "m", "l">>)
         \/ dom.hasGlobexForm /\ dom.hasSections

RECURSIVE firstMatch(_, _, _)
firstMatch(hs, url, dom) ==
  IF hs = <<>> THEN "none"
  ELSE IF matches(Head(hs), url, dom) THEN Head(hs)
  ELSE firstMatch(Tail(hs), url, dom)

detectHandler(url, dom) == firstMatch(handlers, url, dom)

\* the RunSummaryItem main pushes for a target
summaryItem_withoutConfirmation(target, threw, res, exc) ==
  IF threw
    THEN [ targetName |-> target.name, success |-> FALSE,
           confirmationId |-> <<>>, error |-> exc, screenshot |-> FALSE,
           fatal |-> TRUE ]
    ELSE [ targetName |-> target.name, success |-> res.success,
           confirmationId |-> <<>>, error |-> res.error,
           screenshot |-> res.screenshot, fatal |-> FALSE ]

summaryItem(target, threw, res, exc) ==
  IF threw
    THEN [ targetName |-> target.name, success |-> FALSE,
           confirmationId |-> <<>>, error |-> exc, screenshot |-> FALSE,
           fatal |-> TRUE ]
    ELSE [ targetName |-> target.name, success |-> res.success,
           confirmationId |-> res.confirmationId, error |-> res.error,
           screenshot |-> res.screenshot, fatal |-> FALSE ]

\* for (const target of targets): the catch of main lets the loop go on
nextTargetIndex_abortOnException(index, threw) ==
  IF threw THEN index + 2 ELSE index + 1

nextTargetIndex(index, threw) == index + 1

currentTarget == targets[targetIndex]

\* applyToJob is entered with fresh locals; await chromium.launch(...) is
\* outside the try block
Launch ==
  /\ pc = "launch"
  /\ \E rejected \in BOOLEAN :
       IF rejected
         THEN /\ exception' = <<"browserType.launch: failed to launch">>
              /\ pc' = "threw"
         ELSE /\ exception' = <<>>
              /\ pc' = "goto"
  /\ handler' = "none"
  /\ page' = "null"
  /\ phase' = "fillForm"
  /\ program' = <<>>
  /\ runError' = <<>>
  /\ result' = NoResult
  /\ ip' = 1
  /\ bip' = 0
  /\ attemptOuter' = 1
  /\ attemptWait' = 1
  /\ mode' = "run"
  /\ seen' = "none"
  /\ vis' = {}
  /\ pend' = {}
  /\ ensured' = {}
  /\ failedEnsure' = "none"
  /\ touched' = {}
  /\ callClicks' = 0
  /\ prevCallClicks' = 0
  /\ timeouts' = 0
  /\ confirmation' = <<>>
  /\ observed' = {}
  /\ logged' = {}
  /\ selectedGlobexSkills' = 0
  /\ UNCHANGED <<retryVars, callVars, mainVars, profile, runtimeOptions>>

\* browser.newContext(), newPage(), page.goto(url)
Navigate ==
  /\ pc = "goto"
  /\ \E navigation \in {"newPageRejected", "gotoRejected", "loaded"} :
       IF navigation = "newPageRejected"
         THEN /\ runError' = <<"browser.newContext: browser has been closed">>
              /\ pc' = "catch"
              /\ UNCHANGED <<page, vis, pend>>
       ELSE IF navigation = "gotoRejected"
         THEN /\ runError' = <<"page.goto: net::ERR_CONNECTION_REFUSED">>
              /\ pc' = "catch"
              /\ page' = "open"
              /\ UNCHANGED <<vis, pend>>
       ELSE /\ page' = "open"
            /\ pc' = "detect"
            /\ \E shown \in SUBSET InitialMarkers(currentTarget.url) :
                 /\ vis' = shown \cup PageForm(currentTarget)
                 /\ pend' \in SUBSET (InitialMarkers(currentTarget.url) \ shown)
            /\ UNCHANGED runError
  /\ UNCHANGED <<retryVars, callVars, mainVars, profile, runtimeOptions, handler, phase,
                 program, result, exception, ctlVars, histVars>>

\* const handler = await detectHandler(url, page); if (!handler) throw ...
Detect ==
  /\ pc = "detect"
  /\ \/ \E detected \in {detectHandler(currentTarget.url, dom) : dom \in PageDoms} :
          IF detected = "none"
            THEN /\ runError' = <<"Unsupported ATS URL: ", Join(currentTarget.url)>>
                 /\ pc' = "catch"
                 /\ UNCHANGED <<handler, program, bip>>
            ELSE /\ handler' = detected
                 /\ program' = handlerProgram(detected, "fillForm", profile,
                                              runtimeOptions)
                 /\ bip' = EntryBip(program'[1])
                 /\ pc' = "handler"
                 /\ UNCHANGED runError
     \/ \* a matches that reads the page: locator.count() may reject
        /\ ~matches(handlers[1], currentTarget.url,
                    [hasApplicationForm |-> FALSE, hasProgressBar |-> FALSE,
                     hasGlobexForm |-> FALSE, hasSections |-> FALSE])
        /\ runError' = PlaywrightError([Step EXCEPT !.method = "count"])
        /\ pc' = "catch"
        /\ UNCHANGED <<handler, program, bip>>
  /\ UNCHANGED <<retryVars, callVars, mainVars, profile, runtimeOptions, page, phase,
                 result, exception, ip, attemptOuter, attemptWait, mode, seen,
                 pageVars, histVars>>

\* await handler.fillForm(...) resolved: handler.submit(...) is called
FillFormReturns ==
  /\ pc = "methodReturned"
  /\ phase = "fillForm"
  /\ LET steps == handlerProgram(handler, "submit", profile, runtimeOptions)
     IN  /\ program' = steps
         /\ bip' = EntryBip(steps[1])
  /\ phase' = "submit"
  /\ ip' = 1
  /\ pc' = "handler"
  /\ UNCHANGED <<retryVars, callVars, mainVars, profile, runtimeOptions, handler, page,
                 runError, result, exception, attemptOuter, attemptWait, mode,
                 seen, pageVars, histVars>>

\* (await handler.submit(...)).trim(); return { success: true, ... }
SubmitReturns ==
  /\ pc = "methodReturned"
  /\ phase = "submit"
  /\ result' = [ success |-> TRUE, confirmationId |-> trim(confirmation),
                 error |-> <<>>, screenshot |-> FALSE ]
  /\ pc' = "finally"
  /\ UNCHANGED <<retryVars, callVars, mainVars, profile, runtimeOptions, handler, page,
                 phase, program, runError, exception, ctlVars, pageVars,
                 histVars>>

\* catch (err): the screenshot is attempted when there is a page and never
\* fails the run; return { success: false, error: errorMessage, ... }
Catch ==
  /\ pc = "catch"
  /\ \E captured \in BOOLEAN :
       /\ captured =>
            page = "open" /\ runtimeOptions.captureFailureScreenshots
       /\ result' = [ success |-> FALSE, confirmationId |-> <<>>,
                      error |-> runError, screenshot |-> captured ]
  /\ pc' = "finally"
  /\ UNCHANGED <<retryVars, callVars, mainVars, profile, runtimeOptions, handler, page,
                 phase, program, runError, exception, ctlVars, pageVars,
                 histVars>>

\* finally { await browser.close(); }: a rejection replaces the pending return
BrowserCloses ==
  /\ pc = "finally"
  /\ \E rejected \in BOOLEAN :
       IF rejected
         THEN /\ exception' = <<"browser.close: connection closed">>
              /\ result' = NoResult
              /\ pc' = "threw"
         ELSE /\ pc' = "returned"
              /\ UNCHANGED <<exception, result>>
  /\ UNCHANGED <<retryVars, callVars, mainVars, profile, runtimeOptions, handler, page,
                 phase, program, runError, ctlVars, pageVars, histVars>>

\* main: the body of the for loop after applyToJob returned or threw
MainRecords ==
  /\ pc \in {"returned", "threw"}
  /\ summaryItems' =
       Append(summaryItems, summaryItem(currentTarget, pc = "threw", result, exception))
  /\ targetIndex' = nextTargetIndex(targetIndex, pc = "threw")
  /\ pc' = IF targetIndex' <= Len(targets) THEN "launch" ELSE "summary"
  /\ UNCHANGED <<retryVars, callVars, targets, printed, profile, runtimeOptions, handler,
                 page, phase, program, runError, result, exception, ctlVars,
                 pageVars, histVars>>

\* logger.printRunSummary(summaryItems, totalDurationMs)
PrintRunSummary ==
  /\ pc = "summary"
  /\ LET successCount ==
           Cardinality({i \in DOMAIN summaryItems : summaryItems[i].success})
     IN  printed' = [ total |-> Len(summaryItems), succeeded |-> successCount,
                      failed |-> Len(summaryItems) - successCount ]
  /\ pc' = "done"
  /\ UNCHANGED <<retryVars, callVars, targets, targetIndex, summaryItems, profile,
                 runtimeOptions, handler, page, phase, program, runError,
                 result, exception, ctlVars, pageVars, histVars>>

Init ==
  /\ RetryIdle
  /\ NoCall
  /\ targets = mainTargets
  /\ targetIndex = 1
  /\ summaryItems = <<>>
  /\ printed = [total |-> 0, succeeded |-> 0, failed |-> 0]
  /\ pc = "launch"
  /\ profile = sampleProfile
  /\ runtimeOptions = defaultRuntimeOptions
  /\ FreshRun

Next ==
  \/ Launch
  \/ Navigate
  \/ Detect
  \/ StepSkipped
  \/ StepPause
  \/ StepLog
  \/ StepAct
  \/ StepClick
  \/ StepRead
  \/ StepPick
  \/ StepChoose
  \/ StepWait
  \/ StepToken
  \/ SleepWaitElapses
  \/ SleepBlockElapses
  \/ PageSettles
  \/ FillFormReturns
  \/ SubmitReturns
  \/ Catch
  \/ BrowserCloses
  \/ MainRecords
  \/ PrintRunSummary

Spec == Init /\ [][Next]_vars

\* main followed until applyToJob catches an error (what main does with a
\* failed target is the subject of Spec)
NextLive ==
  \/ Launch
  \/ Navigate
  \/ Detect
  \/ StepSkipped
  \/ StepPause
  \/ StepLog
  \/ StepAct
  \/ StepClick
  \/ StepRead
  \/ StepPick
  \/ StepChoose
  \/ StepWait
  \/ StepToken
  \/ SleepWaitElapses
  \/ SleepBlockElapses
  \/ PageSettles
  \/ FillFormReturns
  \/ SubmitReturns
  \/ BrowserCloses
  \/ MainRecords
  \/ PrintRunSummary

\* the run under its scheduling: an awaited call settles, a sleep elapses and
\* a continuation that is ready runs, so the program never stands still
\* while it has a step to take
SpecLive == Init /\ [][NextLive]_vars /\ WF_vars(NextLive)

-----------------------------------------------------------------------------
(* One call of applyToJob, for every target, profile and retry setting *)

RuntimeOptionsSet ==
  { defaultRuntimeOptions,
    [defaultRuntimeOptions EXCEPT !.enableRetries = FALSE] }

InitApply ==
  /\ RetryIdle
  /\ NoCall
  /\ \E i \in DOMAIN mainTargets, form \in {"standard", "alternate"} :
       targets = << [mainTargets[i] EXCEPT !.form = form] >>
  /\ targetIndex = 1
  /\ summaryItems = <<>>
  /\ printed = [total |-> 0, succeeded |-> 0, failed |-> 0]
  /\ pc = "launch"
  /\ profile \in Profiles
  /\ runtimeOptions \in RuntimeOptionsSet
  /\ FreshRun

SpecApply == InitApply /\ [][Next]_vars

\* urls applyToJob may be given: the two of main, one no handler knows, one
\* that holds the file names of both platforms
DetectTargets ==
  { mainTargets[1], mainTargets[2],
    [name |-> "Initech", url |-> BASE_URL \o <<"/", "a", "p", "p", "l", "y", "/", "4", "2">>,
     form |-> "standard"],
    [name |-> "Acme Corp", url |-> mainTargets[1].url \o <<"?", "f", "r", "o", "m", "=", "/", "g", "l", "o", "b", "e", "x", ".", "h", "t", "m", "l">>,
     form |-> "standard"] }

\* applyToJob on one url of DetectTargets
InitDetect ==
  /\ RetryIdle
  /\ NoCall
  /\ \E target \in DetectTargets : targets = <<target>>
  /\ targetIndex = 1
  /\ summaryItems = <<>>
  /\ printed = [total |-> 0, succeeded |-> 0, failed |-> 0]
  /\ pc = "launch"
  /\ profile = sampleProfile
  /\ runtimeOptions = defaultRuntimeOptions
  /\ FreshRun

SpecDetect == InitDetect /\ [][Next]_vars

-----------------------------------------------------------------------------
(* A section controller asked twice in a row for the same section *)

SectionIdsOf(platform) ==
  IF platform = "acme" THEN Range(AcmeSectionIds) ELSE Range(GlobexSectionIds)

ensureActive(platform, sectionId, o) ==
  IF platform = "acme" THEN acmeEnsureActive(sectionId, o)
                       ELSE globexEnsureActive(sectionId, o)

sectionMarker(platform, sectionId) ==
  IF platform = "acme" THEN acmeStepActive(sectionId)
                       ELSE globexSectionOpen(sectionId)

ensureActiveTwice(platform, sectionId, o) ==
  << ensureActive(platform, sectionId, o),
     ensureActive(platform, sectionId, o) >>

InitSection ==
  /\ RetryIdle
  /\ NoCall
  /\ targetIndex = 1
  /\ summaryItems = <<>>
  /\ printed = [total |-> 0, succeeded |-> 0, failed |-> 0]
  /\ pc = "handler"
  /\ profile = sampleProfile
  /\ runtimeOptions \in RuntimeOptionsSet
  /\ \E i \in DOMAIN handlers :
       /\ targets = <<mainTargets[i]>>
       /\ handler = handlers[i]
       /\ \E sectionId \in SectionIdsOf(handlers[i]) :
            /\ program = ensureActiveTwice(handlers[i], sectionId,
                                           runtimeOptions)
            /\ vis \in SUBSET {sectionMarker(handlers[i], sectionId)}
            /\ pend \in SUBSET ({sectionMarker(handlers[i], sectionId)} \ vis)
  /\ bip = EntryBip(program[1])
  /\ page = "open"
  /\ phase = "ensureActive"
  /\ runError = <<>>
  /\ result = NoResult
  /\ exception = <<>>
  /\ ip = 1
  /\ attemptOuter = 1
  /\ attemptWait = 1
  /\ mode = "run"
  /\ seen = "none"
  /\ ensured = {}
  /\ failedEnsure = "none"
  /\ touched = {}
  /\ callClicks = 0
  /\ prevCallClicks = 0
  /\ timeouts = 0
  /\ confirmation = <<>>
  /\ observed = {}
  /\ logged = {}
  /\ selectedGlobexSkills = 0

NextSection ==
  \/ StepSkipped
  \/ StepPause
  \/ StepClick
  \/ StepRead
  \/ StepWait
  \/ SleepWaitElapses
  \/ SleepBlockElapses
  \/ PageSettles

SpecSection == InitSection /\ [][NextSection]_vars

-----------------------------------------------------------------------------
(* The skill loop of the Globex qualifications section on its own *)

\* profile.skills of the loop: an alias pair, a repeated token, a token in two
\* spellings around one without mapping, a single token
SkillLists ==
  { << <<"n", "o", "d", "e">>, <<"n", "o", "d", "e", "j", "s">> >>,
    << <<"g", "i", "t">>, <<"g", "i", "t">> >>,
    << <<"R", "e", "a", "c", "t">>, <<"f", "o", "r", "t", "r", "a", "n">>,
       <<"r", "e", "a", "c", "t">> >>,
    << <<"p", "y", "t", "h", "o", "n">> >> }

\* the chips the list maps to
MappedChips(skills) ==
  { globexSkillChip(mapSkill("globex", skills[i])) :
      i \in {k \in DOMAIN skills : mapSkill("globex", skills[k]) \notin {Null, ""}} }

\* the pages the loop may meet: each chip absent, present or present and
\* already selected
ChipPages(skills) ==
  { present \cup {chip \o ".selected" : chip \in chosenChips} :
      <<present, chosenChips>> \in
        { pair \in (SUBSET MappedChips(skills)) \X (SUBSET MappedChips(skills)) :
            pair[2] \subseteq pair[1] } }

InitSkills ==
  /\ RetryIdle
  /\ NoCall
  /\ targets = <<mainTargets[2]>>
  /\ targetIndex = 1
  /\ summaryItems = <<>>
  /\ printed = [total |-> 0, succeeded |-> 0, failed |-> 0]
  /\ pc = "handler"
  /\ runtimeOptions = defaultRuntimeOptions
  /\ handler = "globex"
  /\ \E skills \in SkillLists :
       /\ profile = [sampleProfile EXCEPT !.skills = skills]
       /\ program = globexSkillSteps(skills)
       /\ vis \in ChipPages(skills)
  /\ pend = {}
  /\ bip = EntryBip(program[1])
  /\ page = "open"
  /\ phase = "fillForm"
  /\ runError = <<>>
  /\ result = NoResult
  /\ exception = <<>>
  /\ ip = 1
  /\ attemptOuter = 1
  /\ attemptWait = 1
  /\ mode = "run"
  /\ seen = "none"
  /\ ensured = {}
  /\ failedEnsure = "none"
  /\ touched = {}
  /\ callClicks = 0
  /\ prevCallClicks = 0
  /\ timeouts = 0
  /\ confirmation = <<>>
  /\ observed = {}
  /\ logged = {}
  /\ selectedGlobexSkills = 0

NextSkills ==
  \/ StepSkipped
  \/ StepLog
  \/ StepRead
  \/ StepClick
  \/ StepPause

SpecSkills == InitSkills /\ [][NextSkills]_vars

-----------------------------------------------------------------------------
(* A toggle set twice in a row to the same state *)

ToggleSelectors == {"#g-work-auth-toggle", "#g-visa-toggle"}

\* the toggle carries data-value="true"
dataValueTrue(selector) == selector \o "[data-value='true']"

\* the steps of a toggle call on a page that keeps the toggle's data-value:
\* the read finds "true" or something else, a click flips the value at once
onToggle(steps, selector) ==
  [ i \in DOMAIN steps |->
      IF steps[i].k = "read"
        THEN [steps[i] EXCEPT !.marker = dataValueTrue(selector),
                              !.reads = <<"active", "inactive">>]
      ELSE IF steps[i].k = "click"
        THEN [steps[i] EXCEPT !.reveals = dataValueTrue(selector),
                              !.toggle = TRUE, !.immediate = TRUE]
      ELSE steps[i] ]

\* the call sites of registry.ts: the work-authorization toggle is given
\* profile.workAuthorized, the visa toggle profile.requiresVisa
desiredState(p, selector) ==
  IF selector = "#g-work-auth-toggle" THEN p.workAuthorized ELSE p.requiresVisa

ToggleCalls(p, selector) ==
  { onToggle(setToggleState("additional", selector,
                            desiredState(p, selector), "none"), selector) }
  \cup { onToggle(humanToggleState("additional", selector,
                                   desiredState(p, selector), "none",
                                   pauseRange), selector) :
           pauseRange \in BOOLEAN }

InitToggle ==
  /\ RetryIdle
  /\ NoCall
  /\ targets = <<mainTargets[2]>>
  /\ targetIndex = 1
  /\ summaryItems = <<>>
  /\ printed = [total |-> 0, succeeded |-> 0, failed |-> 0]
  /\ pc = "handler"
  /\ runtimeOptions = defaultRuntimeOptions
  /\ handler = "globex"
  /\ \E workAuthorized \in BOOLEAN, requiresVisa \in BOOLEAN :
       profile = [sampleProfile EXCEPT !.workAuthorized = workAuthorized,
                                      !.requiresVisa = requiresVisa]
  /\ \E selector \in ToggleSelectors :
       /\ \E call \in ToggleCalls(profile, selector) : program = call \o call
       /\ vis \in SUBSET {dataValueTrue(selector)}
  /\ pend = {}
  /\ bip = EntryBip(program[1])
  /\ page = "open"
  /\ phase = "fillForm"
  /\ runError = <<>>
  /\ result = NoResult
  /\ exception = <<>>
  /\ ip = 1
  /\ attemptOuter = 1
  /\ attemptWait = 1
  /\ mode = "run"
  /\ seen = "none"
  /\ ensured = {}
  /\ failedEnsure = "none"
  /\ touched = {}
  /\ callClicks = 0
  /\ prevCallClicks = 0
  /\ timeouts = 0
  /\ confirmation = <<>>
  /\ observed = {}
  /\ logged = {}
  /\ selectedGlobexSkills = 0

NextToggle ==
  \/ StepSkipped
  \/ StepRead
  \/ StepClick
  \/ StepPause

SpecToggle == InitToggle /\ [][NextToggle]_vars

-----------------------------------------------------------------------------
(* The functions of mappings/registry.ts and the normalizers of globex.ts,
   called on their own: each action is one call, on any input of the sets
   below, and the state keeps the call and what it returned. *)

PlatformIds == {"acme", "globex"}

\* UserProfile["experienceLevel"], the key type of ExperienceLevelMap
ExperienceLevels == {"0-1", "1-3", "3-5", "5-10", "10+"}

\* UserProfile["education"], the key type of EducationMap
EducationLevels == {"high-school", "associates", "bachelors", "masters", "phd"}

\* referral sources a profile may carry (UserProfile.referralSource: string)
ReferralInputs ==
  { <<"l", "i", "n", "k", "e", "d", "i", "n">>, <<" ", "L", "i", "n", "k", "e", "d", "I", "n", " ">>, <<"C", "o", "m", "p", "a", "n", "y", "-", "W", "e", "b", "s", "i", "t", "e">>, <<"c", "o", "m", "p", "a", "n", "y", " ", "w", "e", "b", "s", "i", "t", "e">>,
    <<"j", "o", "b", "-", "b", "o", "a", "r", "d">>, <<"r", "e", "f", "e", "r", "r", "a", "l">>, <<"R", "E", "F", "E", "R", "R", "A", "L">>, <<"u", "n", "i", "v", "e", "r", "s", "i", "t", "y">>, <<"o", "t", "h", "e", "r">>,
    <<" ", "O", "t", "h", "e", "r", " ">>, <<"f", "r", "i", "e", "n", "d", "-", "f", "r", "o", "m", "-", "m", "e", "e", "t", "u", "p">>, <<"w", "e", "b", "s", "i", "t", "e">>, <<"b", "o", "a", "r", "d">>, <<>>,
    <<" ", " ", " ">>, <<"c", "o", "n", "s", "t", "r", "u", "c", "t", "o", "r">>, <<"t", "o", "S", "t", "r", "i", "n", "g">>, <<"_", "_", "p", "r", "o", "t", "o", "_", "_">> }

\* skill tokens a profile may carry (UserProfile.skills: string[])
SkillInputs ==
  { <<"j", "a", "v", "a", "s", "c", "r", "i", "p", "t">>, <<"j", "s">>, <<"J", "S">>, <<" ", "J", "S", " ">>, <<"J", "a", "v", "a", "S", "c", "r", "i", "p", "t">>, <<"j", "a", "v", "a", "-", "s", "c", "r", "i", "p", "t">>,
    <<"t", "y", "p", "e", "s", "c", "r", "i", "p", "t">>, <<"t", "s">>, <<"p", "y", "t", "h", "o", "n">>, <<"p", "y">>, <<"r", "e", "a", "c", "t">>, <<"r", "e", "a", "c", "t", "j", "s">>,
    <<"R", "e", "a", "c", "t", ".", "j", "s">>, <<"n", "o", "d", "e">>, <<"n", "o", "d", "e", "j", "s">>, <<"n", "o", "d", "e", ".", "j", "s">>, <<"N", "o", "d", "e", " ", "J", "S">>, <<"s", "q", "l">>,
    <<"g", "i", "t">>, <<"d", "o", "c", "k", "e", "r">>, <<"a", "w", "s">>, <<"g", "r", "a", "p", "h", "q", "l">>, <<"G", "r", "a", "p", "h", "Q", "L">>, <<"f", "o", "r", "t", "r", "a", "n">>,
    <<"c", "+", "+">>, <<"c", "#">>, <<>>, <<"c", "o", "n", "s", "t", "r", "u", "c", "t", "o", "r">> }

\* salary expectations a profile may carry; Absent is a missing property
SalaryInputs ==
  { Absent, <<>>, <<"n", "o", "t", " ", "a", " ", "n", "u", "m", "b", "e", "r">>, <<"1", "5", "0", "0", "0">>, <<"8", "5", "0", "0", "0">>, <<"9", "9", "9", "9", "9", "9">>,
    <<"3", "0", "0", "0", "0">>, <<"3", "2", "4", "9", "9">>, <<"3", "2", "5", "0", "0">>, <<"8", "7", "5", "0", "0">>, <<" ", "9", "0", "0", "0", "0">>, <<"1", "2", "0", "0", "0", "0", ".", "7", "5">>,
    <<"-", "5">>, <<"2", "0", "0", "0", "0", "0">>, <<"1", "9", "7", "5", "0", "0">>, <<"9", "5", "k">> }

LocationInputs ==
  { <<"S", "a", "n", " ", "F", "r", "a", "n", "c", "i", "s", "c", "o", ",", " ", "C", "A">>, <<" ", "A", "u", "s", "t", "i", "n", " ">>, <<",", " ", "C", "A">>, <<>>, <<"R", "e", "m", "o", "t", "e">> }

CallUnchanged ==
  UNCHANGED <<retryVars, mainVars, jobVars, ctlVars, pageVars, histVars,
              engineVars, chosen>>

CallMapExperienceLevel ==
  /\ pc = "idle"
  /\ \E platform \in PlatformIds, value \in ExperienceLevels :
       /\ called' = "mapExperienceLevel"
       /\ given' = <<platform, value>>
       /\ returned' = mapExperienceLevel(platform, value)
  /\ CallUnchanged

CallMapEducation ==
  /\ pc = "idle"
  /\ \E platform \in PlatformIds, value \in EducationLevels :
       /\ called' = "mapEducation"
       /\ given' = <<platform, value>>
       /\ returned' = mapEducation(platform, value)
  /\ CallUnchanged

CallMapReferralSource ==
  /\ pc = "idle"
  /\ \E platform \in PlatformIds, value \in ReferralInputs :
       /\ called' = "mapReferralSource"
       /\ given' = <<platform, value>>
       /\ returned' = mapReferralSource(platform, value)
  /\ CallUnchanged

CallMapSkill ==
  /\ pc = "idle"
  /\ \E platform \in PlatformIds, rawSkill \in SkillInputs :
       /\ called' = "mapSkill"
       /\ given' = <<platform, rawSkill>>
       /\ returned' = mapSkill(platform, rawSkill)
  /\ CallUnchanged

CallNormalizeSalary ==
  /\ pc = "idle"
  /\ \E rawSalary \in SalaryInputs :
       /\ called' = "normalizeSalary"
       /\ given' = <<rawSalary>>
       /\ returned' = normalizeSalary(rawSalary)
  /\ CallUnchanged

CallNormalizeCity ==
  /\ pc = "idle"
  /\ \E location \in LocationInputs :
       /\ called' = "normalizeCity"
       /\ given' = <<location>>
       /\ returned' = normalizeCity(location)
  /\ CallUnchanged

InitMappings ==
  /\ InitIdle
  /\ FreshRun
  /\ RetryIdle
  /\ NoCall

NextMappings ==
  \/ CallMapExperienceLevel
  \/ CallMapEducation
  \/ CallMapReferralSource
  \/ CallMapSkill
  \/ CallNormalizeSalary
  \/ CallNormalizeCity

SpecMappings == InitMappings /\ [][NextMappings]_vars

-----------------------------------------------------------------------------
(* utils/human-like.ts : the pacing engine.  A uint32 is kept as its two   *)
(* 16-bit halves, so that the 32-bit operations of the code (^, <<, >>>,   *)
(* Math.imul) are computed exactly.                                        *)

humanDelayProfile ==
  [ actionPauseMinMs |-> 40, actionPauseMaxMs |-> 120,
    hoverDwellMinMs |-> 35, hoverDwellMaxMs |-> 90,
    letterTypeMinMs |-> 12, letterTypeMaxMs |-> 28,
    digitTypeMinMs |-> 24, digitTypeMaxMs |-> 40,
    symbolTypeMinMs |-> 28, symbolTypeMaxMs |-> 48,
    preSubmitPauseMinMs |-> 120, preSubmitPauseMaxMs |-> 220,
    longTextThreshold |-> 120, longTextTypedPrefix |-> 12 ]

Uint32(hi, lo) == [hi |-> hi % 65536, lo |-> lo % 65536]

\* a ^ b on 16-bit halves
RECURSIVE Xor16(_, _)
Xor16(a, b) ==
  IF a = 0 THEN b
  ELSE IF b = 0 THEN a
  ELSE 2 * Xor16(a \div 2, b \div 2) + (((a % 2) + (b % 2)) % 2)

Xor32(x, y) == Uint32(Xor16(x.hi, y.hi), Xor16(x.lo, y.lo))

\* x << 13, x >>> 17, x << 5
ShiftLeft13(x) == Uint32(x.hi * 8192 + x.lo \div 8, (x.lo % 8) * 8192)

ShiftRight17(x) == Uint32(0, x.hi \div 2)

ShiftLeft5(x) == Uint32(x.hi * 32 + x.lo \div 2048, (x.lo % 2048) * 32)

\* Math.imul(hash, 16777619), 16777619 = 256 * 65536 + 403
MathImulPrime(x) ==
  Uint32(x.hi * 403 + x.lo * 256 + (x.lo * 403) \div 65536, x.lo * 403)

\* String.prototype.charCodeAt for the characters a seed is made of here
CharCodes ==
  [c \in Range(LowerCase) |-> 96 + (CHOOSE i \in DOMAIN LowerCase : LowerCase[i] = c)]
  @@ [c \in Range(UpperCase) |-> 64 + (CHOOSE i \in DOMAIN UpperCase : UpperCase[i] = c)]
  @@ [c \in Range(DecimalDigits) |-> 47 + (CHOOSE i \in DOMAIN DecimalDigits : DecimalDigits[i] = c)]
  @@ (" " :> 32 @@ "-" :> 45 @@ "." :> 46 @@ "/" :> 47 @@ ":" :> 58)

\* hashStringToUint32: FNV-1a over the UTF-16 code units
RECURSIVE hashFrom(_, _)
hashFrom(hash, value) ==
  IF value = <<>> \/ hash.hi \notin 0..65535 THEN hash
  ELSE hashFrom(MathImulPrime(Xor32(hash, Uint32(0, CharCodes[Head(value)]))),
                Tail(value))

hashStringToUint32(value) == hashFrom(Uint32(33052, 40389), value)

\* createXorshift32: the initial state, and one call of the engine
createXorshift32(seedNumber) ==
  IF seedNumber = Uint32(0, 0) THEN Uint32(40503, 31161) ELSE seedNumber

xorshift32(state) ==
  LET a == Xor32(state, ShiftLeft13(state))
      b == Xor32(a, ShiftRight17(a))
  IN  Xor32(b, ShiftLeft5(b))

\* Math.round(min + (state / 0x100000000) * (max - min))
scaled(minMs, maxMs, state) ==
  LET min == Min(minMs, maxMs)
      max == Max(minMs, maxMs)
      span == max - min
  IN  min + (state.hi * span + 32768 + (state.lo * span) \div 65536) \div 65536

\* const random = seed ? createXorshift32(hashStringToUint32(seed)) : Math.random
createHumanLikeEngine_unseeded(engineSeed) ==
  [random |-> "Math.random", state |-> Uint32(0, 0)]

createHumanLikeEngine(engineSeed) ==
  IF engineSeed # Absent /\ engineSeed # <<>>
    THEN [ random |-> "xorshift32",
           state |-> createXorshift32(hashStringToUint32(engineSeed)) ]
    ELSE [random |-> "Math.random", state |-> Uint32(0, 0)]

\* values of Math.random() * 0x100000000: the least and the greatest
MathRandomValues == {Uint32(0, 0), Uint32(65535, 65535)}

\* toDelay(minMs, maxMs, random): the delays it may return, each with the
\* state the engine is left in
toDelay(minMs, maxMs, generator) ==
  IF Min(minMs, maxMs) = Max(minMs, maxMs)
    THEN {[delayMs |-> Min(minMs, maxMs), state |-> generator.state]}
  ELSE IF generator.random = "xorshift32"
    THEN {[ delayMs |-> scaled(minMs, maxMs, xorshift32(generator.state)),
            state |-> xorshift32(generator.state) ]}
    ELSE {[delayMs |-> scaled(minMs, maxMs, r), state |-> generator.state] :
            r \in MathRandomValues}

\* the halves of a character outside the basic plane (UTF-16 surrogates)
HighSurrogate == "<D83D>"

LowSurrogate == "<DE00>"

ReplacementCharacter == "<FFFD>"

\* for (const character of value): a surrogate pair is one character
RECURSIVE Characters(_)
Characters(value) ==
  IF value = <<>> THEN <<>>
  ELSE IF Len(value) >= 2 /\ value[1] = HighSurrogate /\ value[2] = LowSurrogate
    THEN << SubSeq(value, 1, 2) >> \o Characters(SubSeq(value, 3, Len(value)))
    ELSE << <<Head(value)>> >> \o Characters(Tail(value))

\* resolveTypeDelay: the band of a character
typeDelayBand(character) ==
  IF Len(character) = 1 /\ character[1] \in Range(LowerCase) \cup Range(UpperCase)
    THEN <<humanDelayProfile.letterTypeMinMs, humanDelayProfile.letterTypeMaxMs>>
  ELSE IF Len(character) = 1 /\ character[1] \in Range(DecimalDigits)
    THEN <<humanDelayProfile.digitTypeMinMs, humanDelayProfile.digitTypeMaxMs>>
    ELSE <<humanDelayProfile.symbolTypeMinMs, humanDelayProfile.symbolTypeMaxMs>>

EngineStep(k, text) == [k |-> k, text |-> text]

typeSteps(characters) ==
  [i \in DOMAIN characters |-> EngineStep("type", characters[i])]

\* the awaited steps of pause
pauseSteps == << EngineStep("pause", <<>>), EngineStep("elapse", <<>>) >>

\* the awaited steps of hoverAndClick
hoverAndClickSteps_clickBeforeElapse ==
  << EngineStep("scroll", <<>>), EngineStep("hover", <<>>),
     EngineStep("dwell", <<>>), EngineStep("click", <<>>),
     EngineStep("elapse", <<>>) >>

hoverAndClickSteps ==
  << EngineStep("scroll", <<>>), EngineStep("hover", <<>>),
     EngineStep("dwell", <<>>), EngineStep("elapse", <<>>),
     EngineStep("click", <<>>) >>

\* the awaited steps of typeText(page, selector, value)
typeTextSteps(value) ==
  << EngineStep("scroll", <<>>), EngineStep("fill", <<>>) >>
  \o (IF value = <<>> THEN <<>>
      ELSE IF Len(value) > humanDelayProfile.longTextThreshold
        THEN LET prefix == SubSeq(value, 1, Min(humanDelayProfile.longTextTypedPrefix, Len(value)))
                 remainder == SubSeq(value, humanDelayProfile.longTextTypedPrefix + 1, Len(value))
             IN  typeSteps(Characters(prefix))
                 \o (IF remainder # <<>>
                       THEN << EngineStep("insert", remainder) >> ELSE <<>>)
        ELSE typeSteps(Characters(value)))

engineSteps(call) ==
  IF call.method = "pause" THEN pauseSteps
  ELSE IF call.method = "hoverAndClick" THEN hoverAndClickSteps
  ELSE typeTextSteps(call.value)

-----------------------------------------------------------------------------
(* Two runs of a pacing engine, created from the same seed and driven by   *)
(* the same calls, one after the other                                     *)

\* seeds applyToJob may pass (`${baseSeed}:${url}`); Absent is no HUMAN_SEED
Seeds == { Absent, <<"a", ":", "/", "a">>, <<"s", "e", "e", "d", "-", "4", "2", ":", "/", "g">> }

RECURSIVE Repeat(_, _)
Repeat(str, n) == IF n <= 0 THEN <<>> ELSE str \o Repeat(str, n - 1)

\* a text longer than longTextThreshold
LongText == Repeat(<<"l", "o", "r", "e", "m", " ", "4", "2", ".", " ">>, 12) \o <<"!">>

\* a text longer than longTextThreshold whose character at index 11 of the
\* string (units 12 and 13) lies outside the basic plane
LongTextAstral ==
  <<"t", "h", "a", "n", "k", " ", "y", "o", "u", "!", " ", HighSurrogate, LowSurrogate>>
  \o Repeat(<<"l", "o", "r", "e", "m", " ", "4", "2", ".", " ">>, 11)

EngineCall(method, minMs, maxMs, value) ==
  [method |-> method, minMs |-> minMs, maxMs |-> maxMs, value |-> value]

EngineCalls ==
  { EngineCall("pause", humanDelayProfile.actionPauseMinMs, humanDelayProfile.actionPauseMaxMs, <<>>),
    EngineCall("pause", 80, 80, <<>>),
    EngineCall("hoverAndClick", 0, 0, <<>>),
    EngineCall("typeText", 0, 0, <<>>),
    EngineCall("typeText", 0, 0, <<"J", "o", " ", "4">>),
    EngineCall("typeText", 0, 0, <<"o", "k", HighSurrogate, LowSurrogate>>),
    EngineCall("typeText", 0, 0, LongText),
    EngineCall("typeText", 0, 0, LongTextAstral) }

\* the longest text of a call that follows another call
MaxSecondText == 4

\* the sequences of calls a run is driven by
CallSequences ==
  {<<c>> : c \in EngineCalls}
  \cup {<<c, d>> : c \in EngineCalls,
                   d \in {e \in EngineCalls : Len(e.value) <= MaxSecondText}}

\* what the field held before the run
FieldBefore == <<"o", "l", "d">>

CurCall == calls[callIndex]

CurEngineStep == engineSteps(CurCall)[stepIndex]

EngineRunning ==
  /\ engineRun \in {1, 2}
  /\ ends[engineRun] = "running"

\* a surrogate that is not part of a pair
IsLoneSurrogate(text, i) ==
  \/ text[i] = HighSurrogate /\ (i = Len(text) \/ text[i + 1] # LowSurrogate)
  \/ text[i] = LowSurrogate /\ (i = 1 \/ text[i - 1] # HighSurrogate)

\* the text as it arrives in the page: the protocol of the browser carries
\* well-formed text, a lone surrogate arrives as it is or replaced
Transmit(text) ==
  [ i \in DOMAIN text |->
      IF IsLoneSurrogate(text, i) /\ loneSurrogates = "replaced"
        THEN ReplacementCharacter ELSE text[i] ]

EngineEvent(kind, ms, text) == [kind |-> kind, delayMs |-> ms, text |-> text]

\* the awaited step resolved: the next step, the next call, or the end
EngineStepDone ==
  IF stepIndex < Len(engineSteps(CurCall))
    THEN /\ stepIndex' = stepIndex + 1
         /\ UNCHANGED <<callIndex, ends>>
  ELSE IF callIndex < Len(calls)
    THEN /\ callIndex' = callIndex + 1
         /\ stepIndex' = 1
         /\ UNCHANGED ends
    ELSE /\ ends' = [ends EXCEPT ![engineRun] = "returned"]
         /\ UNCHANGED <<callIndex, stepIndex>>

\* the awaited step rejected: the call throws to its caller
EngineStepRejected ==
  /\ ends' = [ends EXCEPT ![engineRun] = "threw"]
  /\ UNCHANGED <<callIndex, stepIndex>>

EngineUnchanged ==
  UNCHANGED <<retryVars, mainVars, jobVars, ctlVars, pageVars, histVars,
              called, given, returned, chosen, humanSeed, loneSurrogates,
              calls>>

\* const delayMs = toDelay(minMs, maxMs, random); setTimeout(resolve, delayMs)
EnginePauses ==
  /\ EngineRunning
  /\ CurEngineStep.k = "pause"
  /\ \E drawn \in toDelay(CurCall.minMs, CurCall.maxMs, engine) :
       /\ engine' = [engine EXCEPT !.state = drawn.state]
       /\ events' = [events EXCEPT ![engineRun] =
                       Append(@, EngineEvent("pause", drawn.delayMs, <<>>))]
  /\ EngineStepDone
  /\ UNCHANGED <<engineRun, fields>>
  /\ EngineUnchanged

\* setTimeout(resolve, toDelay(hoverDwellMinMs, hoverDwellMaxMs, random))
EngineDwells ==
  /\ EngineRunning
  /\ CurEngineStep.k = "dwell"
  /\ \E drawn \in toDelay(humanDelayProfile.hoverDwellMinMs,
                         humanDelayProfile.hoverDwellMaxMs, engine) :
       /\ engine' = [engine EXCEPT !.state = drawn.state]
       /\ events' = [events EXCEPT ![engineRun] =
                       Append(@, EngineEvent("dwell", drawn.delayMs, <<>>))]
  /\ EngineStepDone
  /\ UNCHANGED <<engineRun, fields>>
  /\ EngineUnchanged

\* the timer of a pause or of a dwell fires
TimerElapses ==
  /\ EngineRunning
  /\ CurEngineStep.k = "elapse"
  /\ events' = [events EXCEPT ![engineRun] =
                  Append(@, EngineEvent("elapsed", 0, <<>>))]
  /\ EngineStepDone
  /\ UNCHANGED <<engineRun, engine, fields>>
  /\ EngineUnchanged

\* await locator.scrollIntoViewIfNeeded(), locator.hover(), locator.click()
EngineActs ==
  /\ EngineRunning
  /\ CurEngineStep.k \in {"scroll", "hover", "click"}
  /\ \E rejected \in BOOLEAN :
       IF rejected
         THEN /\ EngineStepRejected
              /\ UNCHANGED events
         ELSE /\ events' = [events EXCEPT ![engineRun] =
                              Append(@, EngineEvent(CurEngineStep.k, 0, <<>>))]
              /\ EngineStepDone
  /\ UNCHANGED <<engineRun, engine, fields>>
  /\ EngineUnchanged

\* await locator.fill("")
EngineFills ==
  /\ EngineRunning
  /\ CurEngineStep.k = "fill"
  /\ \E rejected \in BOOLEAN :
       IF rejected
         THEN /\ EngineStepRejected
              /\ UNCHANGED <<events, fields>>
         ELSE /\ events' = [events EXCEPT ![engineRun] =
                              Append(@, EngineEvent("fill", 0, <<>>))]
              /\ fields' = [fields EXCEPT ![engineRun] = <<>>]
              /\ EngineStepDone
  /\ UNCHANGED <<engineRun, engine>>
  /\ EngineUnchanged

\* await locator.type(character, { delay: resolveTypeDelay(character, random) })
EngineTypes ==
  /\ EngineRunning
  /\ CurEngineStep.k = "type"
  /\ \E drawn \in toDelay(typeDelayBand(CurEngineStep.text)[1],
                         typeDelayBand(CurEngineStep.text)[2], engine) :
       /\ engine' = [engine EXCEPT !.state = drawn.state]
       /\ \E rejected \in BOOLEAN :
            IF rejected
              THEN /\ EngineStepRejected
                   /\ UNCHANGED <<events, fields>>
              ELSE /\ events' = [events EXCEPT ![engineRun] =
                                   Append(@, EngineEvent("type", drawn.delayMs,
                                                         CurEngineStep.text))]
                   /\ fields' = [fields EXCEPT ![engineRun] =
                                   @ \o Transmit(CurEngineStep.text)]
                   /\ EngineStepDone
  /\ UNCHANGED engineRun
  /\ EngineUnchanged

\* await locator.evaluate((el, chunk) => { field.value += chunk; ... }, remainder)
EngineInserts ==
  /\ EngineRunning
  /\ CurEngineStep.k = "insert"
  /\ \E rejected \in BOOLEAN :
       IF rejected
         THEN /\ EngineStepRejected
              /\ UNCHANGED <<events, fields>>
         ELSE /\ events' = [events EXCEPT ![engineRun] =
                              Append(@, EngineEvent("insert", 0, CurEngineStep.text))]
              /\ fields' = [fields EXCEPT ![engineRun] =
                              @ \o Transmit(CurEngineStep.text)]
              /\ EngineStepDone
  /\ UNCHANGED <<engineRun, engine>>
  /\ EngineUnchanged

\* the second run: a new engine from the same seed, the same calls
SecondRun ==
  /\ engineRun = 1
  /\ humanSeed # Absent
  /\ ends[1] # "running"
  /\ engineRun' = 2
  /\ engine' = createHumanLikeEngine(humanSeed)
  /\ callIndex' = 1
  /\ stepIndex' = 1
  /\ ends' = [ends EXCEPT ![2] = "running"]
  /\ UNCHANGED <<events, fields>>
  /\ EngineUnchanged

InitEngine ==
  /\ InitIdle
  /\ FreshRun
  /\ RetryIdle
  /\ called = "none"
  /\ given = <<>>
  /\ returned = <<>>
  /\ chosen = [results |-> <<>>, clicked |-> 0]
  /\ humanSeed \in Seeds
  /\ loneSurrogates \in {"kept", "replaced"}
  /\ calls \in CallSequences
  /\ humanSeed = Absent => Len(calls) = 1
  /\ engineRun = 1
  /\ engine = createHumanLikeEngine(humanSeed)
  /\ callIndex = 1
  /\ stepIndex = 1
  /\ events = << <<>>, <<>> >>
  /\ fields = <<FieldBefore, FieldBefore>>
  /\ ends = <<"running", "idle">>

NextEngine ==
  \/ EnginePauses
  \/ EngineDwells
  \/ TimerElapses
  \/ EngineActs
  \/ EngineFills
  \/ EngineTypes
  \/ EngineInserts
  \/ SecondRun

SpecEngine == InitEngine /\ [][NextEngine]_vars


-----------------------------------------------------------------------------
(* applyToJob's engine: the same target run first in one process and after
   another target in a second process *)

\* readHumanSeed: process.env.HUMAN_SEED trimmed, undefined when blank
readHumanSeed(env) ==
  IF env # Absent /\ env # <<>> /\ trim(env) # <<>> THEN trim(env) ELSE Absent

\* const scopedSeed = baseSeed ? `${baseSeed}:${url}` : undefined
scopedSeed(baseSeed, url) ==
  IF baseSeed # Absent /\ baseSeed # <<>> THEN baseSeed \o <<":">> \o url
                                         ELSE Absent

\* const human = createHumanLikeEngine(scopedSeed): previous is the engine
\* the process made for the target before, none for the first target
applyToJobEngine_sharedGenerator(env, url, previous) ==
  IF previous.random = "none"
    THEN createHumanLikeEngine(scopedSeed(readHumanSeed(env), url))
    ELSE previous

applyToJobEngine(env, url, previous) ==
  createHumanLikeEngine(scopedSeed(readHumanSeed(env), url))

NoEngine == [random |-> "none", state |-> [hi |-> 0, lo |-> 0]]

\* values of HUMAN_SEED
HumanSeedValues == { Absent, <<" ">>, <<"a">>, <<" ", "s", "e", "e", "d", "-", "4", "2", " ">> }

\* the draws the run of the earlier target may have made
MaxEarlierDraws == 3

RECURSIVE afterDraws(_, _)
afterDraws(generator, n) ==
  IF n = 0 \/ generator.random # "xorshift32" THEN generator
  ELSE afterDraws([generator EXCEPT !.state = xorshift32(generator.state)], n - 1)

\* the calls a run of the target makes on its engine
TargetCallSequences == {cs \in CallSequences : \A i \in DOMAIN cs : Len(cs[i].value) <= MaxSecondText}

\* the target the two processes have in common is the last of targets
TargetOfInterest == targets[Len(targets)]

\* second process: applyToJob of the earlier target has come and gone, its
\* engine has drawn some delays
EarlierTargetRuns ==
  /\ engineRun = 1
  /\ ends[1] # "running"
  /\ ends[2] = "idle"
  /\ \E n \in 1..MaxEarlierDraws :
       engine' = afterDraws(applyToJobEngine(humanSeed, targets[1].url, NoEngine), n)
  /\ ends' = [ends EXCEPT ![2] = "earlier"]
  /\ UNCHANGED <<engineRun, callIndex, stepIndex, events, fields>>
  /\ EngineUnchanged

\* second process: applyToJob of the target of interest is entered
ApplyToJobAfter ==
  /\ engineRun = 1
  /\ ends[2] = "earlier"
  /\ engine' = applyToJobEngine(humanSeed, TargetOfInterest.url, engine)
  /\ engineRun' = 2
  /\ callIndex' = 1
  /\ stepIndex' = 1
  /\ ends' = [ends EXCEPT ![2] = "running"]
  /\ UNCHANGED <<events, fields>>
  /\ EngineUnchanged

InitTargets ==
  /\ targets \in {mainTargets, <<mainTargets[2], mainTargets[1]>>}
  /\ targetIndex = 1
  /\ summaryItems = <<>>
  /\ printed = [total |-> 0, succeeded |-> 0, failed |-> 0]
  /\ pc = "idle"
  /\ profile = [firstName |-> "Jane"]
  /\ runtimeOptions = [enableRetries |-> TRUE]
  /\ FreshRun
  /\ RetryIdle
  /\ called = "none"
  /\ given = <<>>
  /\ returned = <<>>
  /\ chosen = [results |-> <<>>, clicked |-> 0]
  /\ humanSeed \in HumanSeedValues
  /\ loneSurrogates = "kept"
  /\ calls \in TargetCallSequences
  /\ readHumanSeed(humanSeed) = Absent => Len(calls) = 1
  /\ engineRun = 1
  /\ engine = applyToJobEngine(humanSeed, TargetOfInterest.url, NoEngine)
  /\ callIndex = 1
  /\ stepIndex = 1
  /\ events = << <<>>, <<>> >>
  /\ fields = <<FieldBefore, FieldBefore>>
  /\ ends = <<"running", "idle">>

NextTargets ==
  \/ EnginePauses
  \/ EngineDwells
  \/ TimerElapses
  \/ EngineActs
  \/ EngineFills
  \/ EngineTypes
  \/ EarlierTargetRuns
  \/ ApplyToJobAfter

SpecTargets == InitTargets /\ [][NextTargets]_vars

-----------------------------------------------------------------------------
(* Properties of the retry engine, checked under SpecRetry *)

RetryFinished == rpc \in {"returned", "thrown"}

\* a policy that satisfies the RetryPolicy invariant of the data model
ValidPolicy == /\ options.attempts >= 1
               /\ options.initialDelayMs >= 0
               /\ options.backoffMultiplier >= 10

\* round(initialDelay * backoff^i), backoff in tenths
RoundedBackoff(i) ==
  (2 * options.initialDelayMs * Pow(options.backoffMultiplier, i) + Pow(10, i))
    \div (2 * Pow(10, i))

SleepsFollowBackoff ==
  \A k \in 1..Len(sleeps) : sleeps[k] = RoundedBackoff(k - 1)

\* C2 as stated: with attempts = N the operation is called at most N times,
\* withRetry sleeps exactly N-1 times, and the i-th sleep is
\* round(initialDelay * backoff^i).
C2_Original ==
  (ValidPolicy /\ RetryFinished) =>
    /\ opCalls <= options.attempts
    /\ Len(sleeps) = options.attempts - 1
    /\ SleepsFollowBackoff

\* C2 amended: with attempts = N >= 1 the operation is called at most N times;
\* withRetry sleeps once between two consecutive calls, so exactly
\* (calls - 1) times, which is at most N-1 and is N-1 exactly when all N
\* attempts were made; the i-th sleep is round(initialDelay * backoff^i).
C2_RetryBudget ==
  ValidPolicy =>
    /\ opCalls <= options.attempts
    /\ Len(sleeps) <= options.attempts - 1
    /\ RetryFinished => Len(sleeps) = opCalls - 1
    /\ (RetryFinished /\ opCalls = options.attempts)
         => Len(sleeps) = options.attempts - 1
    /\ SleepsFollowBackoff

C2_Witness ==
  /\ rpc = "thrown"
  /\ options.attempts = 3
  /\ opCalls = 3
  /\ sleeps = <<25, 38>>

\* C3: when shouldRetry returns false on the first failure the operation is
\* called exactly once and withRetry fails at once; the predicate is invoked
\* on every failed attempt (also on the last one the count gate allows), and
\* a false answer ends the run at that attempt whatever budget remains.
C3_PredicateShortCircuit ==
  options.hasShouldRetry =>
    /\ predCalls = Len(opErrors)
    /\ \A k \in 1..Len(opErrors) :
         ~options.shouldRetry[opErrors[k]] =>
           /\ k = Len(opErrors)
           /\ rpc = "thrown"
           /\ opCalls = k
           /\ Len(sleeps) = k - 1

C3_Witness ==
  /\ options.hasShouldRetry
  /\ options.attempts = 3
  /\ Len(opErrors) = 1
  /\ ~options.shouldRetry[opErrors[1]]
  /\ rpc = "thrown"
  /\ opCalls = 1

\* C4: with attempts = 1 (the SINGLE_ATTEMPT_RETRY_PROFILE) the operation runs
\* exactly once, withRetry never sleeps and never logs a retry event, whether
\* the attempt succeeds or fails.
C4_SingleAttempt ==
  options.attempts = SINGLE_ATTEMPT_RETRY_PROFILE.attempts =>
    /\ opCalls <= 1
    /\ RetryFinished <=> opCalls = 1
    /\ rpc # "sleep"
    /\ sleeps = <<>>
    /\ retryEvents = <<>>

C4_Witness ==
  /\ options.attempts = 1
  /\ options.initialDelayMs = SINGLE_ATTEMPT_RETRY_PROFILE.initialDelayMs
  /\ rpc = "thrown"
  /\ opCalls = 1

\* C5: whenever withRetry throws (budget exhausted or predicate refusal) the
\* error carries the scope, the step, the number of attempts made and the
\* message of the error of the final attempt.
C5_ErrorContext ==
  rpc = "thrown" =>
    /\ Len(opErrors) = opCalls
    /\ Len(outcome.message) >= 4
    /\ outcome.message[1] = options.scope
    /\ outcome.message[2] = options.step
    /\ outcome.message[3] = ToString(opCalls)
    /\ SubSeq(outcome.message, 5, Len(outcome.message))
         = opErrors[Len(opErrors)].message

C5_Witness ==
  /\ rpc = "thrown"
  /\ Len(opErrors) = 2
  /\ opErrors[1].message # opErrors[2].message
  /\ options.attempts = 3
  /\ options.hasShouldRetry

\* C6: one logStep event per retry, issued before the sleep it announces and
\* carrying that sleep's delay and the failure reason of the attempt; nothing
\* is logged for the attempt that succeeds nor for the final failed attempt.
C6_RetryEvents ==
  /\ Len(retryEvents) = Len(sleeps) + (IF rpc = "sleep" THEN 1 ELSE 0)
  /\ RetryFinished => Len(retryEvents) = opCalls - 1
  /\ \A k \in 1..Len(retryEvents) :
       /\ retryEvents[k].attempt = k
       /\ retryEvents[k].errorMessage = opErrors[k].message
       /\ retryEvents[k].scope = options.scope
       /\ k <= Len(sleeps) => retryEvents[k].delayMs = sleeps[k]
       /\ (k = Len(sleeps) + 1) => retryEvents[k].delayMs = delayMs

C6_Witness ==
  /\ rpc = "returned"
  /\ Len(retryEvents) = 2
  /\ Len(sleeps) = 2
  /\ sleeps[1] # sleeps[2]

-----------------------------------------------------------------------------
(* Properties of the handlers and of applyToJob, checked under SpecApply *)

FieldsTouched == {t \in touched : t[1] # "none"}

\* C1: in every handler run no field of a section S is acted on before
\* ensureActive(S) has returned, and once ensureActive(S) has failed no field
\* of S or of a later section has been acted on.
C1_FillAfterEnsure ==
  /\ \A t \in FieldsTouched : t[1] \in ensured
  /\ failedEnsure # "none" =>
       \A t \in FieldsTouched : SectionRank(t[1]) < SectionRank(failedEnsure)

C1_Witness ==
  /\ failedEnsure # "none"
  /\ SectionRank(failedEnsure) > 1
  /\ \E t \in FieldsTouched : t[1] \in ensured

\* the attempts the section-transition policy of the platform allows
SectionTransitionAttempts ==
  IF ~runtimeOptions.enableRetries THEN 1
  ELSE IF handler = "acme"
    THEN maxAttemptsOf(ACME_STEP_TRANSITION_RETRY_PROFILE)
    ELSE maxAttemptsOf(GLOBEX_SECTION_OPEN_RETRY_PROFILE)

\* ensureActive failed and every attempt ended in a timed-out marker wait
SectionNeverActive ==
  /\ failedEnsure # "none"
  /\ timeouts = SectionTransitionAttempts

DidNotActivate ==
  IF handler = "acme" THEN acmeDidNotActivate(failedEnsure)
                      ELSE globexDidNotOpen(failedEnsure)

\* C8: when the marker of a section never appears on any attempt of the
\* section-transition policy, ensureActive fails with the "did not become
\* active" / "did not open" error, the handler takes no further step, the
\* controller is not invoked again, and the target is reported failed.
C8_SectionNeverActive ==
  [][ SectionNeverActive' =>
        /\ DidNotActivate' \in Range(runError')
        /\ pc' \notin {"handler", "methodReturned"}
        /\ pc' = "returned" => ~result'.success /\ result'.error = runError'
        /\ Len(summaryItems') > Len(summaryItems) =>
             ~summaryItems'[Len(summaryItems')].success
        /\ SectionNeverActive =>
             UNCHANGED <<ip, bip, attemptOuter, attemptWait, touched,
                         callClicks, timeouts, ensured, vis, pend>> ]_vars

C8_Witness ==
  /\ SectionNeverActive
  /\ pc = "done"
  /\ Len(summaryItems) = 1
  /\ ~summaryItems[1].success
  /\ DidNotActivate \in Range(summaryItems[1].error)

\* the error that ended the handler came from a section controller or from
\* the retry engine
RaisedByControllerOrRetry ==
  /\ handler # "none"
  /\ runError # <<>>
  /\ \/ failedEnsure # "none"
     \/ Len(runError) >= 5 /\ runError[1] \in {"Acme", "Globex"}

\* C9: an error of a section controller or of the retry engine ends the
\* handler at the failing step, submit is not called after a failed fillForm,
\* and applyToJob returns one ApplicationResult with success = false whose
\* error is the message of that error.
C9_Original ==
  RaisedByControllerOrRetry =>
    /\ pc \notin {"handler", "methodReturned", "threw"}
    /\ pc \in {"finally", "returned", "summary", "done"} =>
         /\ ~result.success
         /\ result.error = runError

-----------------------------------------------------------------------------
(* Properties of the section controllers, checked under SpecSection *)

\* C7: two calls in a row of ensureActive for the same section issue at most
\* one toggle click in total, and the second call issues none.
C7_Original ==
  (pc = "handler" /\ ip = 2) =>
    /\ prevCallClicks + callClicks <= 1
    /\ callClicks = 0

-----------------------------------------------------------------------------
(* Properties of main, checked under Spec *)

\* C10: main runs every target whatever the earlier targets did, pushes
\* exactly one summary item per target in order, and enters applyToJob for a
\* later target with the same fresh state whatever the earlier outcome was.
C10_TargetsIsolated ==
  /\ targetIndex <= Len(targets) + 1
  /\ Len(summaryItems) =
       (IF pc \in {"summary", "done"} THEN Len(targets) ELSE targetIndex - 1)
  /\ \A i \in DOMAIN summaryItems : summaryItems[i].targetName = targets[i].name
  /\ pc = "done" =>
       /\ printed.total = Len(targets)
       /\ printed.succeeded + printed.failed = Len(targets)
  /\ pc = "goto" =>
       /\ FreshRun
       /\ exception = <<>>

C10_Witness ==
  /\ pc = "done"
  /\ summaryItems[1].fatal
  /\ ~summaryItems[2].fatal
  /\ summaryItems[2].success

-----------------------------------------------------------------------------
(* Properties of the mapping functions, checked under SpecMappings *)

\* C16: for both platforms and every input string, mapReferralSource returns
\* a value of the platform's referral table: the entry of the lowercase-trimmed
\* input when the table has one, and the canonical "other" otherwise.
C16_Original ==
  called = "mapReferralSource" =>
    LET table == mappingRegistry[given[1]].referralSource
        key == Join(toLowerCase(trim(given[2])))
    IN  /\ returned \in TableValues(table)
        /\ returned = IF key \in DOMAIN table THEN table[key] ELSE "other"

\* C18: for every value of the closed education and experience-level domains
\* and for both platforms, mapEducation and mapExperienceLevel return a
\* non-null platform value, one of the platform's table.
C18_MappingTotality ==
  /\ called = "mapExperienceLevel" =>
       /\ returned \notin {Undefined, Null}
       /\ returned \in TableValues(mappingRegistry[given[1]].experienceLevel)
  /\ called = "mapEducation" =>
       /\ returned \notin {Undefined, Null}
       /\ returned \in TableValues(mappingRegistry[given[1]].education)

\* C18 witness: the last education value and the last experience level have
\* been mapped for Globex, whose tokens differ from the profile's.
C18_Witness ==
  \/ called = "mapEducation" /\ given = <<"globex", "masters">>
       /\ returned = "ms"
  \/ called = "mapExperienceLevel" /\ given = <<"globex", "10+">>
       /\ returned = "staff"

\* C19: on every platform mapSkill gives the same result for two skill
\* strings that share the same case-insensitive, non-alphanumeric-stripped
\* key, and "js" and "javascript" resolve to the same platform token
\* (stated on two calls in a row).
C19_Original ==
  [][ (called = "mapSkill" /\ called' = "mapSkill" /\ given[1] = given'[1]) =>
        /\ normalizeSkillAliasKey(given[2]) = normalizeSkillAliasKey(given'[2])
             => returned' = returned
        /\ (given[2] = <<"j", "s">> /\ given'[2] = <<"j", "a", "v", "a", "s", "c", "r", "i", "p", "t">>)
             => returned' = returned ]_vars

\* C20: normalizeSalary maps "", "not a number", "15000", "85000", "999999"
\* and an absent salary to 80000, 80000, 30000, 85000, 200000 and 80000.
C20_SalaryNormalization ==
  called = "normalizeSalary" =>
    /\ given[1] = <<>> => returned = <<"8", "0", "0", "0", "0">>
    /\ given[1] = <<"n", "o", "t", " ", "a", " ", "n", "u", "m", "b", "e", "r">> => returned = <<"8", "0", "0", "0", "0">>
    /\ given[1] = <<"1", "5", "0", "0", "0">> => returned = <<"3", "0", "0", "0", "0">>
    /\ given[1] = <<"8", "5", "0", "0", "0">> => returned = <<"8", "5", "0", "0", "0">>
    /\ given[1] = <<"9", "9", "9", "9", "9", "9">> => returned = <<"2", "0", "0", "0", "0", "0">>
    /\ given[1] = Absent => returned = <<"8", "0", "0", "0", "0">>

\* C20 witness: the salary below the minimum has been normalized to the
\* minimum.
C20_Witness ==
  called = "normalizeSalary" /\ given = << <<"1", "5", "0", "0", "0">> >> /\ returned = <<"3", "0", "0", "0", "0">>

-----------------------------------------------------------------------------
(* Properties of the handlers' conditional fields, checked under SpecApply *)

Touched(selectors) == {t \in touched : t[2] \in selectors}

ConfirmationMarker ==
  IF handler = "acme" THEN "#success-page" ELSE "#globex-confirmation"

ConfirmationDidNotAppear ==
  IF handler = "acme"
    THEN "Acme success page did not appear after submit"
    ELSE "Globex confirmation section did not appear after submit"

SubmitAttempts ==
  IF runtimeOptions.enableRetries
    THEN IF handler = "acme" THEN ACME_SUBMIT_RETRY_PROFILE.attempts
                             ELSE GLOBEX_SUBMIT_RETRY_PROFILE.attempts
    ELSE 1

\* every attempt of the submit operation ended in a timed-out wait for the
\* confirmation marker
ConfirmationNeverAppeared ==
  /\ handler # "none"
  /\ phase = "submit"
  /\ Top.k = "retry"
  /\ Top.body[Len(Top.body)].marker = ConfirmationMarker
  /\ timeouts = SubmitAttempts

\* C12: submit reads and returns a confirmation token only after a wait has
\* found the confirmation marker visible; when every attempt's wait for the
\* marker timed out, submit has thrown an error naming the missing marker and
\* no token was read or returned.
C12_TokenAfterConfirmation ==
  /\ confirmation # <<>> => ConfirmationMarker \in observed
  /\ result.success =>
       /\ ConfirmationMarker \in observed
       /\ result.confirmationId = trim(confirmation)
  /\ ConfirmationNeverAppeared =>
       /\ pc \notin {"handler", "methodReturned"}
       /\ ConfirmationDidNotAppear \in Range(runError)
       /\ confirmation = <<>>
       /\ ~result.success
       /\ result.confirmationId = <<>>

\* C12 witness: a wait found the confirmation, and the token was read and
\* returned.
C12_Witness ==
  /\ pc = "returned"
  /\ result.success
  /\ result.confirmationId # <<>>
  /\ confirmation # <<>>
  /\ ConfirmationMarker \in observed

VisaFields ==
  { "input[name='visaSponsorship'][value='yes']",
    "input[name='visaSponsorship'][value='no']",
    "#g-visa-toggle" }

VisaContainer ==
  IF handler = "acme" THEN "#visa-sponsorship-group" ELSE "#g-visa-block.visible"

VisaDidNotAppear ==
  IF handler = "acme"
    THEN "Acme visa sponsorship follow-up did not become visible"
    ELSE "Globex visa block did not become visible"

VisaSkipLogged ==
  (IF handler = "acme"
     THEN "Work authorization is no, visa sponsorship follow-up is not shown."
     ELSE "Work authorization is false, visa toggle section is not applicable.")
    \in logged

StartDateFilled == Touched({"#start-date", "#g-start-date"}) # {}

\* C13: when workAuthorized is false, on both platforms the visa field is
\* never interacted with, no wait for its container is issued, and the skip
\* has been logged by the time the handler goes on to the next field.
C13_VisaSkipped ==
  (handler # "none" /\ ~profile.workAuthorized) =>
    /\ Touched(VisaFields) = {}
    /\ VisaContainer \notin observed
    /\ VisaDidNotAppear \notin Range(runError)
    /\ pc = "handler" => ~(Cur.k = "wait" /\ Cur.marker = VisaContainer)
    /\ StartDateFilled => VisaSkipLogged

\* C13 witness: a Globex run without work authorization logged the skip and
\* went on to submit.
C13_Witness ==
  /\ handler = "globex"
  /\ ~profile.workAuthorized
  /\ VisaSkipLogged
  /\ pc = "returned"
  /\ result.success

\* C14: when workAuthorized is true, the visa field is interacted with only
\* after the wait for its container found it visible; when that wait timed
\* out the visa field is never touched and the run fails.
C14_VisaAfterReveal ==
  (handler # "none" /\ profile.workAuthorized) =>
    /\ Touched(VisaFields) # {} => VisaContainer \in observed
    /\ VisaDidNotAppear \in Range(runError) =>
         /\ Touched(VisaFields) = {}
         /\ VisaContainer \notin observed
         /\ pc \notin {"handler", "methodReturned"}
         /\ ~result.success
         /\ pc = "done" => ~summaryItems[1].success

\* C14 witness: an Acme run with work authorization answered the visa
\* question after its container was seen.
C14_Witness ==
  /\ handler = "acme"
  /\ profile.workAuthorized
  /\ VisaContainer \in observed
  /\ Touched(VisaFields) # {}

ReferralDetailFields == {"#referral-other", "#g-source-other"}

ReferralDetailContainer ==
  IF handler = "acme" THEN "#referral-other-group"
                      ELSE "#g-source-other-block.visible"

MapsToOther ==
  handler # "none" /\ mapReferralSource(handler, profile.referralSource) = "other"

CoverLetterFilled == Touched({"#cover-letter", "#g-motivation"}) # {}

\* C15: on both platforms, whenever the referral source maps to "other", the
\* detail field is filled only after its container was seen, it has been
\* filled by the time the handler goes on, and it holds the original referral
\* value of the profile.
C15_Original ==
  MapsToOther =>
    /\ Touched(ReferralDetailFields) # {} => ReferralDetailContainer \in observed
    /\ CoverLetterFilled => Touched(ReferralDetailFields) # {}
    /\ \A t \in Touched(ReferralDetailFields) : t[3] = profile.referralSource

\* C15 as amended: as above, but on Acme a referral source whose
\* lowercase-trimmed form is "other" fills the detail field with the text
\* "Other source"; every other value, and every value on Globex, is filled
\* as the profile has it.
C15_ReferralDetails ==
  MapsToOther =>
    /\ Touched(ReferralDetailFields) # {} => ReferralDetailContainer \in observed
    /\ CoverLetterFilled => Touched(ReferralDetailFields) # {}
    /\ \A t \in Touched(ReferralDetailFields) :
         t[3] = IF /\ handler = "acme"
                   /\ toLowerCase(trim(profile.referralSource)) = <<"o", "t", "h", "e", "r">>
                  THEN <<"O", "t", "h", "e", "r", " ", "s", "o", "u", "r", "c", "e">>
                  ELSE profile.referralSource

\* C15 witness: an Acme run whose referral source is not in the table filled
\* the detail field with it, and one whose source is "other" itself did too.
C15_Witness ==
  /\ handler = "acme"
  /\ MapsToOther
  /\ ReferralDetailContainer \in observed
  /\ \/ <<"3", "#referral-other", <<"f", "r", "i", "e", "n", "d", "-", "f", "r", "o", "m", "-", "m", "e", "e", "t", "u", "p">>>> \in touched
     \/ <<"3", "#referral-other", <<"O", "t", "h", "e", "r", " ", "s", "o", "u", "r", "c", "e">>>> \in touched

\* the skill control a profile skill stands for, and whether the platform
\* has one for it
SkillControl(skill) ==
  IF handler = "acme" THEN acmeSkillCheckbox(mapSkill("acme", skill))
                      ELSE globexSkillChip(mapSkill("globex", skill))

NoPlatformMapping(skill) ==
  IF handler = "acme"
    THEN SkillControl(skill) \notin PageForm(targets[1])
    ELSE mapSkill("globex", skill) = Null

\* the form of this run offers the control of the skill, not yet selected
SkillOffered(skill) ==
  /\ ~NoPlatformMapping(skill)
  /\ SkillControl(skill) \in PageForm(targets[1])
  /\ (SkillControl(skill) \o ".selected") \notin PageForm(targets[1])

SkillSkipLogged(skill) ==
  (IF handler = "acme" THEN acmeSkillNotAvailable(skill)
                       ELSE globexSkillNoMapping(skill)) \in logged

SkillsDone ==
  \/ (IF handler = "acme" THEN "3" ELSE "additional") \in ensured
  \/ phase = "submit"

\* C17: on both platforms a profile skill without a platform mapping is
\* skipped: no checkbox or chip is touched for it, the skip does not end the
\* run (every skill the form offers is selected and the handler goes on), and
\* a log entry naming the token has been emitted by then.
C17_SkillOmission ==
  handler # "none" =>
    \A i \in DOMAIN profile.skills :
      NoPlatformMapping(profile.skills[i]) =>
        /\ Touched({SkillControl(profile.skills[i])}) = {}
        /\ SkillsDone =>
             /\ SkillSkipLogged(profile.skills[i])
             /\ \A j \in DOMAIN profile.skills :
                  SkillOffered(profile.skills[j]) =>
                    Touched({SkillControl(profile.skills[j])}) # {}

\* C17 witness: an Acme run skipped "fortran", logged it, checked the skill
\* after it and submitted.
C17_Witness ==
  /\ handler = "acme"
  /\ pc = "returned"
  /\ result.success
  /\ SkillSkipLogged(<<"f", "o", "r", "t", "r", "a", "n">>)
  /\ Touched({acmeSkillCheckbox("git")}) # {}
  /\ Touched({acmeSkillCheckbox("fortran")}) = {}

-----------------------------------------------------------------------------
(* Termination of main, checked under SpecLive *)

\* an awaited call of the run failed for good: a wait did not find its
\* marker within its attempts, a retried operation used up its budget or a
\* call of the browser rejected
RunFailed == pc \in {"catch", "threw"}

BothSubmitted ==
  /\ pc = "done"
  /\ Len(summaryItems) = Len(mainTargets)
  /\ \A i \in DOMAIN summaryItems :
       /\ summaryItems[i].targetName = mainTargets[i].name
       /\ summaryItems[i].success
       /\ summaryItems[i].confirmationId # <<>>
  /\ printed.succeeded = 2

-----------------------------------------------------------------------------
(* Further properties of the mapping functions, checked under SpecMappings *)

\* the number a string of decimal digits stands for, -1 for any other string
SliderValue(str) ==
  IF str # <<>> /\ \A i \in DOMAIN str : str[i] \in Range(DecimalDigits)
    THEN DigitsValue(str) ELSE 0 - 1

\* C21: for every input (absent, unparsable, negative, off-step, out of
\* range) normalizeSalary returns a multiple of 5000 between 30000 and
\* 200000, a point of the slider.
C21_SalaryOnSlider ==
  called = "normalizeSalary" =>
    /\ SliderValue(returned) % 5000 = 0
    /\ SliderValue(returned) >= 30000
    /\ SliderValue(returned) <= 200000

\* C21 witness: an off-step salary has been rounded to the next step, and one
\* just under the top of the range up to the top.
C21_Witness ==
  /\ called = "normalizeSalary"
  /\ \/ given = << <<"8", "7", "5", "0", "0">> >> /\ returned = <<"9", "0", "0", "0", "0">>
     \/ given = << <<"1", "9", "7", "5", "0", "0">> >> /\ returned = <<"2", "0", "0", "0", "0", "0">>

\* C30: on both platforms and for every input, mapSkill returns a value of the
\* platform's skill table or null, never a string outside the vocabulary.
C30_Original ==
  called = "mapSkill" =>
    \/ returned = Null
    \/ returned \in TableValues(mappingRegistry[given[1]].skill)

-----------------------------------------------------------------------------
(* Properties of the pacing engine, checked under SpecEngine               *)

IsPrefix(s, t) == Len(s) <= Len(t) /\ s = SubSeq(t, 1, Len(s))

\* the delays of a run, in the order they were drawn and waited for
DelaySequence(run) ==
  LET drawn == SelectSeq(events[run], LAMBDA e : e.kind \in {"pause", "dwell", "type"})
  IN  [i \in DOMAIN drawn |-> drawn[i].delayMs]

BothReturned == ends = <<"returned", "returned">>

\* C22: two engines created from the same seed and driven by the same calls
\* draw the same delays in the same order (as far as both runs get, a run
\* ends where a step of the page rejects), do the same to the page, and
\* when both runs return the typed values are equal
C22_SeededRunsAgree ==
  humanSeed # Absent =>
    /\ \/ IsPrefix(DelaySequence(1), DelaySequence(2))
       \/ IsPrefix(DelaySequence(2), DelaySequence(1))
    /\ \/ IsPrefix(events[1], events[2])
       \/ IsPrefix(events[2], events[1])
    /\ BothReturned =>
         /\ DelaySequence(1) = DelaySequence(2)
         /\ fields[1] = fields[2]

\* C22 witness: both runs of a seeded engine returned from a pause followed
\* by a typeText, with delays that differ from one draw to the next
C22_Witness ==
  /\ humanSeed # Absent
  /\ BothReturned
  /\ Len(calls) = 2
  /\ calls[1].method = "pause"
  /\ calls[2].method = "typeText"
  /\ fields[2] = calls[2].value
  /\ Len(DelaySequence(2)) >= 4
  /\ \E i, j \in DOMAIN DelaySequence(2) : DelaySequence(2)[i] # DelaySequence(2)[j]

\* the last call of the runs is a typeText that returned in this run
TypeTextReturned(run) ==
  /\ ends[run] = "returned"
  /\ calls[Len(calls)].method = "typeText"

\* C23 (as the specification states it): a typeText that returned leaves the
\* field equal to its input, for every input, and types nothing for ""
C23_Original ==
  \A run \in {1, 2} :
    TypeTextReturned(run) =>
      /\ fields[run] = calls[Len(calls)].value
      /\ calls[Len(calls)].value = <<>> =>
           events[run][Len(events[run])].kind = "fill"

\* the click events of a run are the clicks of its hoverAndClick calls
ClickInOrder(run, i) ==
  /\ i >= 5
  /\ events[run][i - 4].kind = "scroll"
  /\ events[run][i - 3].kind = "hover"
  /\ events[run][i - 2].kind = "dwell"
  /\ events[run][i - 2].delayMs >= humanDelayProfile.hoverDwellMinMs
  /\ events[run][i - 2].delayMs <= humanDelayProfile.hoverDwellMaxMs
  /\ events[run][i - 1].kind = "elapsed"

\* C24: a click of the engine comes after, in this order, the scroll into
\* view, the hover, the draw of the dwell and the end of the dwell, seeded
\* or not; a hover comes right after a scroll, a dwell right after a hover
C24_HoverAndClickOrder ==
  \A run \in {1, 2} :
    \A i \in DOMAIN events[run] :
      /\ events[run][i].kind = "click" => ClickInOrder(run, i)
      /\ events[run][i].kind = "hover" => i >= 2 /\ events[run][i - 1].kind = "scroll"
      /\ events[run][i].kind = "dwell" => i >= 2 /\ events[run][i - 1].kind = "hover"

\* C24 witness: an unseeded engine returned from a hoverAndClick, the click
\* is the last thing it did
C24_Witness ==
  /\ humanSeed = Absent
  /\ ends[1] = "returned"
  /\ calls[1].method = "hoverAndClick"
  /\ Len(events[1]) = 5
  /\ events[1][5].kind = "click"

-----------------------------------------------------------------------------
(* Properties of the Globex school lookup, checked under SpecApply         *)

\* the run is inside the retried operation of fillGlobexSchool
InSchoolLookup ==
  /\ pc = "handler"
  /\ handler = "globex"
  /\ bip > 0
  /\ Top.step = "select school suggestion"

TypesSchoolQuery(instr) ==
  /\ instr.k = "act"
  /\ instr.method = "typeText"
  /\ instr.target = "#g-school"
  /\ instr.value = slice(profile.school, 8)

WaitsForSchoolResults(instr) ==
  /\ instr.k = "wait"
  /\ instr.marker = "#g-school-results.open"

\* the step in which the lookup looks at the results and clicks or throws
ChoosesSchool ==
  /\ InSchoolLookup
  /\ Running
  /\ Cur.k = "choose"
  /\ <<pc, ctlVars>>' # <<pc, ctlVars>>

SchoolClicked ==
  <<"qualifications", "#g-school-results li", profile.school>> \in touched

ExactMatches(list, schoolName) ==
  { i \in DOMAIN list : toLowerCase(list[i].text) = toLowerCase(schoolName) }

\* C26 (as the specification states it): the lookup clicks after it saw the
\* container open, clicks an exact match (letter case ignored) when the
\* results have one, the first result that is not the placeholder
\* otherwise, and never the placeholder
C26_Original ==
  chosen.clicked > 0 =>
    /\ "#g-school-results.open" \in observed
    /\ ~chosen.results[chosen.clicked].noResults
    /\ IF ExactMatches(chosen.results, profile.school) # {}
         THEN chosen.clicked \in ExactMatches(chosen.results, profile.school)
         ELSE chosen.clicked = first(fallbackOption(chosen.results))

-----------------------------------------------------------------------------
(* Properties of the dispatch, checked under SpecDetect                    *)

HandlerIndex(platform) == CHOOSE i \in DOMAIN handlers : handlers[i] = platform

\* detectHandler returned null for the url of the run
DetectedNone ==
  /\ Len(runError) = 2
  /\ runError[1] = "Unsupported ATS URL: "

\* no method of a handler was called
NothingCalled ==
  /\ handler = "none"
  /\ program = <<>>
  /\ touched = {}
  /\ ensured = {}
  /\ logged = {}
  /\ selectedGlobexSkills = 0
  /\ confirmation = <<>>

\* C27 (as the specification states it): the handler of a run is the first
\* of [acme, globex] whose matches is true of the url and of some page; when
\* none matches no fillForm and no submit is called, and applyToJob ends
\* with the result success = false, 'Unsupported ATS URL: <url>'
C27_Original ==
  /\ handler # "none" =>
       \E dom \in PageDoms :
         /\ matches(handler, targets[1].url, dom)
         /\ \A i \in 1..(HandlerIndex(handler) - 1) :
              ~matches(handlers[i], targets[1].url, dom)
  /\ DetectedNone =>
       /\ runError[2] = Join(targets[1].url)
       /\ \E dom \in PageDoms :
            \A i \in DOMAIN handlers : ~matches(handlers[i], targets[1].url, dom)
       /\ NothingCalled
       /\ pc \in {"returned", "threw"} =>
            result = [ success |-> FALSE, confirmationId |-> <<>>,
                       error |-> runError, screenshot |-> result.screenshot ]

-----------------------------------------------------------------------------
(* The order of the sections, checked under SpecApply                      *)

SectionsInOrder == IF handler = "acme" THEN AcmeSectionIds ELSE GlobexSectionIds

\* the elements of a section acted on so far
TouchedIn(sectionId) == {e \in touched : e[1] = sectionId}

\* the sections the steps of an instruction belong to
StepSections(instr) ==
  {instr.section} \cup {instr.body[j].section : j \in DOMAIN instr.body}

ContinueControl(sectionId) ==
  ".form-step[data-step='" \o sectionId \o "'] .btn-primary"

\* an element of the section is acted on in this step
ActsIn(sectionId) == TouchedIn(sectionId)' # TouchedIn(sectionId)

\* the continue control of the Acme step is clicked in this step
ClicksContinue(sectionId) ==
  /\ handler = "acme"
  /\ <<"none", ContinueControl(sectionId), <<>>>> \in touched' \ touched

EarlierSections(sectionId) ==
  {SectionsInOrder[j] : j \in 1..(SectionRank(sectionId) - 1)}

LaterSections(sectionId) ==
  {SectionsInOrder[j] : j \in (SectionRank(sectionId) + 1)..Len(SectionsInOrder)}

\* C28: an element of a section is acted on only when the section was seen
\* active by ensureActive, every earlier section has been filled and no
\* later section has been touched; the continue control of Acme step k is
\* clicked when no step of section k is left in fillForm and before step
\* k + 1 is touched; step 4 (the submit step) is touched in submit only,
\* submit starts only from a fillForm that returned, and a successful run
\* has filled every section
C28_SectionOrder ==
  [][ /\ \A s \in Range(SectionsInOrder) :
           ActsIn(s) =>
             /\ s \in ensured
             /\ handler = "acme" => acmeStepActive(s) \in observed
             /\ \A t \in EarlierSections(s) : t \in ensured /\ TouchedIn(t) # {}
             /\ \A t \in LaterSections(s) : t \notin ensured /\ TouchedIn(t) = {}
             /\ (s = "4") = (phase = "submit")
      /\ \A k \in {"1", "2", "3"} :
           ClicksContinue(k) =>
             /\ phase = "fillForm"
             /\ TouchedIn(k) # {}
             /\ \A j \in (ip + 1)..Len(program) : k \notin StepSections(program[j])
             /\ \A t \in LaterSections(k) : t \notin ensured /\ TouchedIn(t) = {}
      /\ phase' # phase /\ phase' = "submit" =>
           /\ pc = "methodReturned"
           /\ runError = <<>>
           /\ \A s \in Range(SectionsInOrder) \ {"4"} :
                s \in ensured /\ TouchedIn(s) # {}
      /\ result'.success =>
           \A s \in Range(SectionsInOrder) : s \in ensured /\ TouchedIn(s) # {}
    ]_vars

\* C28 witness: an Acme run that succeeded, with the three continue controls
\* clicked and the four steps filled
C28_Witness ==
  /\ handler = "acme"
  /\ result.success
  /\ \A k \in {"1", "2", "3"} : <<"none", ContinueControl(k), <<>>>> \in touched
  /\ \A s \in Range(AcmeSectionIds) : s \in ensured /\ TouchedIn(s) # {}

-----------------------------------------------------------------------------
(* The transition rule of the section controllers, checked under SpecSection *)

\* the first of the two ensureActive calls is in progress
InFirstEnsureActive == pc = "handler" /\ ip = 1

\* the call is at its wait, for the first time
AtFirstWait ==
  /\ InFirstEnsureActive
  /\ Running
  /\ Cur.k = "wait"
  /\ attemptOuter = 1
  /\ attemptWait = 1

SectionTransitionPolicy ==
  IF handler = "acme" THEN ACME_STEP_TRANSITION_RETRY_PROFILE
                      ELSE GLOBEX_SECTION_OPEN_RETRY_PROFILE

SectionTransitionTimeoutMs ==
  IF handler = "acme" THEN runtimeOptions.stepTransitionMs
                      ELSE runtimeOptions.sectionOpenMs

\* C29 (as the specification states it): ensureActive clicks the control of
\* the section once when the marker is not satisfied and not at all when it
\* is, and then waits for the marker, with the timeout of RuntimeOptions,
\* under the section-transition policy
C29_Original ==
  /\ InFirstEnsureActive =>
       /\ callClicks <= 1
       /\ callClicks = 1 => seen = "closed"
  /\ AtFirstWait =>
       /\ Top.ensures # "none"
       /\ Cur.timeoutMs = SectionTransitionTimeoutMs
       /\ SectionTransitionPolicy \in {Cur.retryProfile, Top.retryProfile}
       /\ Cur.marker \notin vis => callClicks = 1

-----------------------------------------------------------------------------
(* Further properties of the dispatch, checked under SpecDetect            *)

UrlPattern(platform) ==
  IF platform = "acme" THEN <<"/", "a", "c", "m", "e", ".", "h", "t", "m", "l">>
                       ELSE <<"/", "g", "l", "o", "b", "e", "x", ".", "h", "t", "m", "l">>

DomMarkers(platform, dom) ==
  IF platform = "acme" THEN dom.hasApplicationForm /\ dom.hasProgressBar
                       ELSE dom.hasGlobexForm /\ dom.hasSections

\* the handlers whose pattern the url of the run holds
PatternsInUrl == {h \in Range(handlers) : includes(targets[1].url, UrlPattern(h))}

\* C31 (as the specification states it): matches is true of a url with the
\* handler's pattern whatever the page holds, and otherwise true exactly
\* when both markers of the handler are on the page; a run whose url holds
\* the pattern of exactly one handler is dispatched to that handler
C31_Original ==
  /\ \A h \in Range(handlers), dom \in PageDoms :
       matches(h, targets[1].url, dom) =
         (includes(targets[1].url, UrlPattern(h)) \/ DomMarkers(h, dom))
  /\ \A h \in Range(handlers) :
       (PatternsInUrl = {h} /\ handler # "none") => handler = h

-----------------------------------------------------------------------------
(* Properties of the engine of a target, checked under SpecTargets         *)

\* C32: with HUMAN_SEED set, the engine applyToJob makes for a target starts
\* from the seed and the url of the target alone: run first in a process or
\* after another target that drew delays of its own, the target draws the
\* same delays (as far as both runs get) and types the same value
C32_TargetDelaysIndependent ==
  readHumanSeed(humanSeed) # Absent =>
    /\ engineRun = 2 =>
         /\ engine.random = "xorshift32"
         /\ callIndex = 1 /\ stepIndex = 1 /\ ends[2] = "running" =>
              engine.state = createXorshift32(hashStringToUint32(
                readHumanSeed(humanSeed) \o <<":">> \o TargetOfInterest.url))
    /\ \/ IsPrefix(DelaySequence(1), DelaySequence(2))
       \/ IsPrefix(DelaySequence(2), DelaySequence(1))
    /\ BothReturned =>
         /\ DelaySequence(1) = DelaySequence(2)
         /\ fields[1] = fields[2]

\* C32 witness: with a seed that needed trimming, the target returned in
\* both processes after at least three delays, not all of them equal
C32_Witness ==
  /\ humanSeed = <<" ", "s", "e", "e", "d", "-", "4", "2", " ">>
  /\ BothReturned
  /\ Len(DelaySequence(2)) >= 3
  /\ \E i, j \in DOMAIN DelaySequence(2) : DelaySequence(2)[i] # DelaySequence(2)[j]

-----------------------------------------------------------------------------
(* Further properties of the retry engine, checked under SpecRetry and *)
(* SpecRetryLive                                                        *)

\* the step is a backoff sleep of withRetry running out
SleepTaken == Len(sleeps') = Len(sleeps) + 1

\* the step is a call of operation()
OperationCalled == opCalls' = opCalls + 1

\* the counts of a run of withRetry: a retry event is logged before its sleep,
\* so events are at most one ahead of the sleeps, and a finished run has as many
\* sleeps as retry events and one call more
RetryCounts ==
  /\ Len(retryEvents) \in {Len(sleeps), Len(sleeps) + 1}
  /\ Len(retryEvents) = Len(sleeps) + 1 <=> rpc = "sleep"
  /\ RetryFinished =>
       /\ Len(sleeps) = Len(retryEvents)
       /\ Len(sleeps) = opCalls - 1

\* the k-th sleep comes after exactly k calls and k retry events and hands over
\* to attempt k+1; call k+1 is made after exactly k sleeps
SleepBetweenAttempts ==
  /\ SleepTaken =>
       /\ rpc = "sleep"
       /\ opCalls = Len(sleeps) + 1
       /\ Len(retryEvents) = Len(sleeps) + 1
       /\ retryEvents[Len(retryEvents)].delayMs = sleeps'[Len(sleeps')]
       /\ rpc' = "attempt"
       /\ attempt' = opCalls + 1
       /\ attempt' <= maxAttemptsOf(options)
  /\ OperationCalled =>
       /\ Len(sleeps) = opCalls
       /\ Len(retryEvents) = opCalls
       /\ UNCHANGED sleeps

\* C33: in every run of withRetry, successful or not, the number of sleeps
\* equals the number of retry events and is the number of operation calls
\* minus one; each sleep lies strictly between two consecutive attempts and
\* is preceded by its retry event; there is no sleep after the last attempt.
C33_SleepsBetweenAttempts == [](RetryCounts) /\ [][SleepBetweenAttempts]_vars

C33_Witness ==
  /\ rpc = "thrown"
  /\ options.attempts = 4
  /\ options.hasShouldRetry
  /\ opCalls = 3
  /\ Len(sleeps) = 2
  /\ Len(retryEvents) = 2

\* what a finished run of withRetry hands back
RetryOutcome ==
  /\ rpc = "returned" =>
       /\ outcome.kind = "returned"
       /\ outcome.value \in OpValues
       /\ opCalls = Len(opErrors) + 1
  /\ rpc = "thrown" =>
       /\ outcome.kind = "thrown"
       /\ opCalls = Len(opErrors)
       /\ outcome.message # RetryFailureNoAttempt(options)
  /\ opCalls <= maxAttemptsOf(options)

\* attempts below 1 behave as attempts = 1: one call, no sleep, "1/1"
AttemptsClamped ==
  options.attempts < 1 =>
    /\ opCalls <= 1
    /\ sleeps = <<>>
    /\ retryEvents = <<>>
    /\ rpc = "thrown" => /\ outcome.message[3] = "1"
                         /\ outcome.message[4] = "1"

\* C34: provided every operation() call settles, withRetry always ends, either
\* returning the result of the first attempt that succeeds (the operation is
\* not called again) or throwing; attempts below 1 are treated as attempts = 1,
\* and the trailing 'failed without a successful attempt' error is unreachable.
C34_AlwaysEnds ==
  /\ <>RetryFinished
  /\ [](RetryOutcome /\ AttemptsClamped)
  /\ [][~RetryFinished]_vars

C34_Witness ==
  /\ rpc = "returned"
  /\ outcome.kind = "returned"
  /\ opCalls = 3
  /\ Len(opErrors) = 2
  /\ options.attempts = 3

-----------------------------------------------------------------------------
(* Retries switched off, checked under SpecApply *)

\* the message has the `[scope] Step "step" failed after n/m attempts: ...`
\* form the retry engine gives the errors it throws
WrappedByRetry(message) ==
  /\ Len(message) >= 5
  /\ message[1] \in {"Acme", "Globex"}

\* the step is the failure of an awaited step of the handler
StepFails == pc = "handler" /\ pc' = "catch"

\* the handler is inside a retry-wrapped operation or at a retry-wrapped wait
InWrappedOperation == pc = "handler" /\ (bip > 0 \/ Cur.k = "wait")

RetriesOff == runtimeOptions.enableRetries = FALSE

\* C35: with enableRetries false every retry-wrapped operation
\* (withOptionalRetry, withOptionalGlobexRetry, waitVisibleWithRetry) runs
\* exactly once: no retry event and no backoff sleep, no second attempt, and
\* its error reaches applyToJob without the scope/step wrapper of the retry
\* engine; waitVisibleWithRetry alone takes an undefined flag as retries on.
C35_RetriesOff ==
  /\ [](RetriesOff =>
          /\ mode = "run"
          /\ attemptOuter = 1
          /\ attemptWait = 1
          /\ timeouts <= 1
          /\ ~WrappedByRetry(runError))
  /\ [][ (RetriesOff /\ InWrappedOperation) =>
           /\ timeouts' > timeouts =>
                /\ StepFails
                /\ runError' = waitForRequiredSelector(Cur)
           /\ StepFails => /\ ~WrappedByRetry(runError')
                           /\ UNCHANGED <<ip, bip>> ]_vars
  /\ [](\A flag \in BOOLEAN :
          /\ ~waitRetriesBypassed(FALSE, flag)
          /\ waitRetriesBypassed(TRUE, flag) <=> retriesBypassed(flag))

C35_Witness ==
  /\ RetriesOff
  /\ pc = "catch"
  /\ bip > 0
  /\ Top.k = "retry"
  /\ Top.retryProfile.attempts > 1
  /\ timeouts = 1
  /\ runError = waitForRequiredSelector(Cur)

-----------------------------------------------------------------------------
(* Further properties of the Globex section controller, checked under *)
(* SpecSection                                                         *)

\* the open marker of the section the running ensureActive call is for
HeaderMarker == globexSectionOpen(Top.ensures)

InGlobexEnsureActive ==
  /\ handler = "globex"
  /\ pc = "handler"
  /\ Top.ensures # "none"

\* the step is a click on the section header
HeaderClicked == InGlobexEnsureActive /\ callClicks' = callClicks + 1

\* the click leaves an open section open and an opening one opening
ClickKeepsSectionOpen ==
  /\ HeaderMarker \in vis => HeaderMarker \in vis'
  /\ HeaderMarker \in pend => HeaderMarker \in (pend' \cup vis')

\* the retry attempt of a call whose first attempt clicked the header and then
\* saw its wait for the open marker time out
RetryAfterClick == attemptOuter > 1 /\ callClicks = 1 /\ timeouts = 1

\* at most one click per attempt, each after a read of the same attempt that
\* found the header without 'open'
ClicksFollowReads ==
  /\ [](InGlobexEnsureActive =>
          /\ callClicks <= attemptOuter
          /\ callClicks <= GLOBEX_SECTION_OPEN_RETRY_PROFILE.attempts)
  /\ [][ HeaderClicked =>
           /\ seen = "closed"
           /\ bip > 1
           /\ Top.body[1].k = "read"
           /\ callClicks < attemptOuter ]_vars

\* C36 as stated: within one Globex ensureActive call the header is clicked at
\* most once per attempt (at most twice), each click after a read of the same
\* attempt that found the header not open; and a click on the retry attempt
\* never closes a section that the first attempt's click opened late, so the
\* call never fails on a section that did open.
C36_Original ==
  /\ ClicksFollowReads
  /\ [][ (HeaderClicked /\ RetryAfterClick) => ClickKeepsSectionOpen ]_vars

-----------------------------------------------------------------------------
(* Further properties of submit, checked under SpecApply *)

SubmitControl == IF handler = "acme" THEN "#submit-btn" ELSE "#globex-submit"

\* the step is a click on the submit control of the form
SubmitClicked ==
  /\ Running
  /\ phase = "submit"
  /\ Cur.k = "click"
  /\ Cur.target = SubmitControl
  /\ callClicks' = callClicks + 1

\* C37 as stated: in submit no click on the submit control is issued once the
\* confirmation marker is visible; when the confirmation appears only after
\* the wait of the first attempt timed out, the retry attempt does not click
\* submit again, so one application is submitted at most once.
C37_Original ==
  [][ SubmitClicked => ConfirmationMarker \notin vis ]_vars

-----------------------------------------------------------------------------
(* Properties of the Globex skill loop, checked under SpecSkills *)

SelectedMarker(chip) == chip \o ".selected"

\* the step is a click on a skill chip
ChipClicked == Running /\ Cur.k = "click" /\ callClicks' = callClicks + 1

\* the loop has run to its end, the count has been logged
SkillLoopDone == pc = "methodReturned"

\* the chips the loop clicked
ChipsClicked == {t[2] : t \in touched}

\* C38: the Globex skill loop clicks a chip only when its class does not hold
\* 'selected'; given that a click selects the chip before the next read, every
\* chip that exists for a mapped profile skill is selected after the loop and
\* none was toggled back off, also when profile.skills holds a token twice or
\* two aliases of one chip ('node', 'nodejs'); the logged count is the number
\* of chip clicks.
C38_ChipsSelectedOnce ==
  /\ [][ /\ ChipClicked =>
              /\ seen = "unselected"
              /\ Cur.target \in vis
              /\ SelectedMarker(Cur.target) \notin vis
              /\ SelectedMarker(Cur.target) \in vis'
              /\ Cur.target \notin ChipsClicked
              /\ selectedGlobexSkills' = selectedGlobexSkills + 1
         /\ \A chip \in MappedChips(profile.skills) :
              SelectedMarker(chip) \in vis => SelectedMarker(chip) \in vis'
       ]_vars
  /\ [](/\ selectedGlobexSkills = Cardinality(ChipsClicked)
        /\ SkillLoopDone =>
             /\ \A chip \in MappedChips(profile.skills) :
                  chip \in vis => SelectedMarker(chip) \in vis
             /\ (globexSkillsSelected \o ToString(Cardinality(ChipsClicked)))
                  \in logged)

C38_Witness ==
  /\ SkillLoopDone
  /\ profile.skills = << <<"n", "o", "d", "e">>, <<"n", "o", "d", "e", "j", "s">> >>
  /\ ChipsClicked = {globexSkillChip("node")}
  /\ SelectedMarker(globexSkillChip("node")) \in vis
  /\ (globexSkillsSelected \o "1") \in logged

-----------------------------------------------------------------------------
(* Properties of setToggleState and humanToggleState, checked under *)
(* SpecToggle                                                       *)

\* the toggle the two calls are for, its state and the state asked for
ToggleOfCalls == program[1].target

ToggleIsActive == dataValueTrue(ToggleOfCalls) \in vis

ToggleDesired == desiredState(profile, ToggleOfCalls)

\* the handler is at the click of a toggle call, the read behind it
AtToggleClick == Running /\ Cur.k = "click"

\* the first of the two calls has returned
FirstCallReturned ==
  \/ pc = "methodReturned"
  \/ pc = "handler" /\ 2 * ip > Len(program) + 1

\* the step left the toggle alone and did not fail
NoClick == vis' = vis /\ touched' = touched /\ pc' # "catch"

\* the step clicked the toggle (the click may be rejected by the page)
Click ==
  \/ pc' = "catch"
  \/ /\ <<"additional", ToggleOfCalls, <<>>>> \in touched'
     /\ ToggleIsActive' # ToggleIsActive

\* C39: setToggleState / humanToggleState clicks the toggle exactly when its
\* current data-value differs from the desired state; given that a click
\* flips the value, the toggle is in the desired state when the call returns
\* and a second call with the same desired state does not click.
C39_ToggleIdempotent ==
  /\ [][ AtToggleClick =>
           /\ IF ToggleIsActive = ToggleDesired THEN NoClick ELSE Click
           /\ FirstCallReturned => NoClick ]_vars
  /\ [](FirstCallReturned => ToggleIsActive = ToggleDesired)

C39_Witness ==
  /\ pc = "methodReturned"
  /\ ToggleOfCalls = "#g-visa-toggle"
  /\ ~profile.requiresVisa
  /\ ~ToggleIsActive
  /\ touched = {<<"additional", "#g-visa-toggle", <<>>>>}
  /\ Len(program) = 6

====
